---- MODULE Spec2Model ----
(***************************************************************************)
(* hledger-formatter: the formatting engine (format, sort, comment toggle, *)
(* balancing-amount inference) as a state machine, with the option         *)
(* loading of the command line and the account cache of the editor        *)
(* extension's completion provider.                                        *)
(*                                                                         *)
(* A text is the sequence of its lines, text.split('\n'): the split is a   *)
(* bijection between strings and non-empty sequences of newline-free       *)
(* lines, and join('\n') is its inverse.  A line is a TLA+ string; all     *)
(* regular expressions of the source are evaluated character by character. *)
(* Amounts are exact decimals of Precision fractional digits, which is    *)
(* what the doubles of the source denote for the bounded inputs used here.*)
(***************************************************************************)
EXTENDS Integers, Sequences, FiniteSets, TLC

VARIABLES text, op, options, range, result, account, context, suggestion,
          amountText, amountValue, sources, used,
          files, accountCache, lastCacheUpdate, requests

\* the state of the formatting engine and of the account completion provider
engine == <<text, op, options, range, result, account, context, suggestion,
            amountText, amountValue, sources, used>>

provider == <<files, accountCache, lastCacheUpdate, requests>>

vars == <<engine, provider>>

(***************************************************************************)
(* Characters and strings                                                  *)
(***************************************************************************)
Ch(s, i) == IF i >= 1 /\ i <= Len(s) THEN SubSeq(s, i, i) ELSE ""

Max(a, b) == IF a >= b THEN a ELSE b

Min(a, b) == IF a <= b THEN a ELSE b

IsDigit(c) == c \in {"0", "1", "2", "3", "4", "5", "6", "7", "8", "9"}

\* \s of the source's regular expressions and of String.prototype.trim,
\* over the characters the inputs use.
IsSpace(c) == c \in {" ", "\t"}

DigitVal(c) ==
    CASE c = "0" -> 0 [] c = "1" -> 1 [] c = "2" -> 2 [] c = "3" -> 3
      [] c = "4" -> 4 [] c = "5" -> 5 [] c = "6" -> 6 [] c = "7" -> 7
      [] c = "8" -> 8 [] c = "9" -> 9

DigitChar(n) ==
    CASE n = 0 -> "0" [] n = 1 -> "1" [] n = 2 -> "2" [] n = 3 -> "3"
      [] n = 4 -> "4" [] n = 5 -> "5" [] n = 6 -> "6" [] n = 7 -> "7"
      [] n = 8 -> "8" [] n = 9 -> "9"

\* s.slice(i) with i a 0-based index
Slice(s, i) == SubSeq(s, i + 1, Len(s))

\* s.slice(0, i)
Prefix(s, i) == SubSeq(s, 1, i)

RECURSIVE LeadingSpaces(_, _)
LeadingSpaces(s, i) ==
    IF i < Len(s) /\ IsSpace(Ch(s, i + 1)) THEN LeadingSpaces(s, i + 1) ELSE i

RECURSIVE TrailingSpaces(_, _)
TrailingSpaces(s, n) ==
    IF n < Len(s) /\ IsSpace(Ch(s, Len(s) - n)) THEN TrailingSpaces(s, n + 1) ELSE n

getLeadingWhitespaceLength(value) == LeadingSpaces(value, 0)

TrimStart(s) == Slice(s, LeadingSpaces(s, 0))

TrimEnd(s) == Prefix(s, Len(s) - TrailingSpaces(s, 0))

Trim(s) == TrimEnd(TrimStart(s))

StartsWith(s, p) == Len(s) >= Len(p) /\ Prefix(s, Len(p)) = p

RECURSIVE Repeat(_, _)
Repeat(c, n) == IF n <= 0 THEN "" ELSE c \o Repeat(c, n - 1)

\* s.indexOf(p, from): 0-based, -1 when absent
RECURSIVE IndexOf(_, _, _)
IndexOf(s, p, from) ==
    IF from + Len(p) > Len(s) THEN -1
    ELSE IF SubSeq(s, from + 1, from + Len(p)) = p THEN from
    ELSE IndexOf(s, p, from + 1)

\* index of the first digit at or after 0-based index i, -1 when none
RECURSIVE FirstDigitFrom(_, _)
FirstDigitFrom(s, i) ==
    IF i >= Len(s) THEN -1
    ELSE IF IsDigit(Ch(s, i + 1)) THEN i
    ELSE FirstDigitFrom(s, i + 1)

\* length of the run of digits starting at 0-based index i
RECURSIVE DigitRun(_, _)
DigitRun(s, i) ==
    IF i < Len(s) /\ IsDigit(Ch(s, i + 1)) THEN 1 + DigitRun(s, i + 1) ELSE 0

RECURSIVE ParseNat(_)
ParseNat(s) ==
    IF s = "" THEN 0
    ELSE 10 * ParseNat(Prefix(s, Len(s) - 1)) + DigitVal(Ch(s, Len(s)))

RECURSIVE NatToString(_)
NatToString(n) ==
    IF n < 10 THEN DigitChar(n) ELSE NatToString(n \div 10) \o DigitChar(n % 10)

PadStart(s, n, c) == Repeat(c, n - Len(s)) \o s

\* lines.push(...more)
RECURSIVE Flatten(_)
Flatten(ss) == IF ss = <<>> THEN <<>> ELSE Head(ss) \o Flatten(Tail(ss))

(***************************************************************************)
(* Options                                                                 *)
(***************************************************************************)
OptionFields ==
    {"amountColumnPosition", "amountAlignment", "indentationWidth",
     "negativeCommodityStyle", "dateFormat", "commentCharacter"}

DEFAULT_FORMATTER_OPTIONS ==
    [amountColumnPosition |-> 42,
     amountAlignment |-> "widest",
     indentationWidth |-> 4,
     negativeCommodityStyle |-> "symbolBeforeSign",
     dateFormat |-> "YYYY-MM-DD",
     commentCharacter |-> ";"]

\* A JavaScript value of an options field, or the number given in place of
\* the options: its typeof and its value.
Num(n) == [type |-> "number", v |-> n]

Str(x) == [type |-> "string", v |-> x]

Undefined == [type |-> "undefined"]

IsString(x, str) == x.type = "string" /\ x.v = str

\* the options argument left out
NoOptions == [f \in {} |-> Undefined]

\* optionsOrColumn is a number, Num(n), or a partial options object: a
\* function on a subset of OptionFields.  Math.floor is the identity on the
\* integers used here.
\* merged: the defaults, overridden by the number or by the fields given
MergedOptions(optionsOrColumn) ==
    [f \in OptionFields |->
        IF "type" \in DOMAIN optionsOrColumn
        THEN IF f = "amountColumnPosition" THEN optionsOrColumn
             ELSE IF f \in {"amountColumnPosition", "indentationWidth"}
             THEN Num(DEFAULT_FORMATTER_OPTIONS[f])
             ELSE Str(DEFAULT_FORMATTER_OPTIONS[f])
        ELSE IF f \in DOMAIN optionsOrColumn THEN optionsOrColumn[f]
        ELSE IF f \in {"amountColumnPosition", "indentationWidth"}
        THEN Num(DEFAULT_FORMATTER_OPTIONS[f])
        ELSE Str(DEFAULT_FORMATTER_OPTIONS[f])]

\* the field by field checks on merged
CheckedOptions(merged) ==
    [amountColumnPosition |->
        IF merged.amountColumnPosition.type = "number"
        THEN Max(0, merged.amountColumnPosition.v)
        ELSE DEFAULT_FORMATTER_OPTIONS.amountColumnPosition,
     indentationWidth |->
        IF merged.indentationWidth.type = "number"
        THEN Max(0, merged.indentationWidth.v)
        ELSE DEFAULT_FORMATTER_OPTIONS.indentationWidth,
     amountAlignment |->
        IF IsString(merged.amountAlignment, "widest") THEN "widest" ELSE "fixedColumn",
     negativeCommodityStyle |->
        IF IsString(merged.negativeCommodityStyle, "symbolBeforeSign")
        THEN "symbolBeforeSign" ELSE "signBeforeSymbol",
     dateFormat |->
        IF IsString(merged.dateFormat, "YYYY/MM/DD") THEN "YYYY/MM/DD"
        ELSE IF IsString(merged.dateFormat, "YYYY.MM.DD") THEN "YYYY.MM.DD"
        ELSE "YYYY-MM-DD",
     commentCharacter |->
        IF IsString(merged.commentCharacter, "#") THEN "#"
        ELSE IF IsString(merged.commentCharacter, "*") THEN "*"
        ELSE ";"]

normalizeFormatterOptions(optionsOrColumn) ==
    CheckedOptions(MergedOptions(optionsOrColumn))

(***************************************************************************)
(* Line classifier and date parser                                         *)
(***************************************************************************)
CommentCharacters == {";", "#", "*"}

\* trimmed.startsWith(';') || trimmed.startsWith('#') || trimmed.startsWith('*')
isCommentLine(line) == Ch(Trim(line), 1) \in CommentCharacters

isCommentBlockStart(line) == Trim(line) = "comment"

isCommentBlockEnd(line) == Trim(line) = "end comment"

NoDate == [ok |-> FALSE, year |-> 0, month |-> 0, day |-> 0, raw |-> ""]

\* /^(\d{4})([-/.])(\d{1,2})\2(\d{1,2})/: the month is the whole digit run
\* after the first separator (one or two digits, then the same separator);
\* the day takes two digits when there are two.
DatePrefixOf(s, mlen, dlen) ==
    IF mlen \in {1, 2} /\ Ch(s, 6 + mlen) = Ch(s, 5) /\ dlen >= 1
    THEN [ok |-> TRUE,
          year |-> ParseNat(SubSeq(s, 1, 4)),
          month |-> ParseNat(SubSeq(s, 6, 5 + mlen)),
          day |-> ParseNat(SubSeq(s, 7 + mlen, 6 + mlen + dlen)),
          raw |-> Prefix(s, 6 + mlen + dlen)]
    ELSE NoDate

TRANSACTION_DATE_PREFIX(s) ==
    IF Len(s) < 8 \/ DigitRun(s, 0) < 4 \/ ~(Ch(s, 5) \in {"-", "/", "."})
    THEN NoDate
    ELSE DatePrefixOf(s, DigitRun(s, 5), Min(2, DigitRun(s, 6 + DigitRun(s, 5))))

\* the match taken without the range checks
UncheckedDate(match) == match

\* the range checks on the match
CheckedDate(match) ==
    IF ~match.ok THEN NoDate
    ELSE IF match.month < 1 \/ match.month > 12 \/ match.day < 1 \/ match.day > 31
    THEN NoDate
    ELSE match

extractDateComponents(s) == CheckedDate(TRANSACTION_DATE_PREFIX(s))

isTransactionHeaderLine(line) == extractDateComponents(Trim(line)).ok

DateSeparator(format) ==
    CASE format = "YYYY/MM/DD" -> "/"
      [] format = "YYYY.MM.DD" -> "."
      [] OTHER -> "-"

formatDate(components, format) ==
    PadStart(NatToString(components.year), 4, "0") \o DateSeparator(format)
        \o PadStart(NatToString(components.month), 2, "0") \o DateSeparator(format)
        \o PadStart(NatToString(components.day), 2, "0")

\* the sort key without zero-padding
UnpaddedIsoDate(components) ==
    NatToString(components.year) \o "-" \o NatToString(components.month) \o "-"
        \o NatToString(components.day)

toIsoDate(components) ==
    PadStart(NatToString(components.year), 4, "0") \o "-"
        \o PadStart(NatToString(components.month), 2, "0") \o "-"
        \o PadStart(NatToString(components.day), 2, "0")

\* lexicographic a < b on the ISO keys (ten characters, digits and '-' at
\* the same places), as the sort comparator's string comparison
RECURSIVE IsoLess(_, _)
IsoLess(a, b) ==
    IF a = "" \/ b = "" THEN a = "" /\ b # ""
    ELSE IF Ch(a, 1) = Ch(b, 1) THEN IsoLess(Tail(a), Tail(b))
    ELSE IF Ch(a, 1) = "-" THEN TRUE
    ELSE IF Ch(b, 1) = "-" THEN FALSE
    ELSE DigitVal(Ch(a, 1)) < DigitVal(Ch(b, 1))

(***************************************************************************)
(* Header formatter                                                        *)
(***************************************************************************)
\* headerLine.search(/\s*;.*$/): the start of the whitespace run before the
\* first ';', -1 without a ';'
RECURSIVE SpaceRunStart(_, _)
SpaceRunStart(s, i) ==
    IF i > 0 /\ IsSpace(Ch(s, i)) THEN SpaceRunStart(s, i - 1) ELSE i

CommentIndexFrom(headerLine, k) == IF k = -1 THEN -1 ELSE SpaceRunStart(headerLine, k)

\* the description segment
HeaderDescription(description) == IF description # "" THEN " " \o description ELSE ""

\* the code segment, /^\([^)]*\)/ ending at index close, and what follows it
HeaderCodeAt(remainder, close) ==
    IF close # -1
    THEN " " \o Prefix(remainder, close + 1)
            \o HeaderDescription(TrimStart(Slice(remainder, close + 1)))
    ELSE HeaderDescription(remainder)

HeaderCode(remainder) ==
    HeaderCodeAt(remainder,
                 IF StartsWith(remainder, "(") THEN IndexOf(remainder, ")", 0) ELSE -1)

\* the status segment and what follows it
HeaderStatus(remainder) ==
    IF StartsWith(remainder, "*") \/ StartsWith(remainder, "!")
    THEN " " \o Ch(remainder, 1) \o HeaderCode(TrimStart(Slice(remainder, 1)))
    ELSE HeaderCode(remainder)

HeaderWithDate(headerLine, commentPart, trimmedHeader, dateInfo, opts) ==
    IF ~dateInfo.ok THEN headerLine
    ELSE formatDate(dateInfo, opts.dateFormat)
            \o HeaderStatus(TrimStart(Slice(trimmedHeader, Len(dateInfo.raw))))
            \o commentPart

HeaderWithoutComment(headerLine, commentPart, trimmedHeader, opts) ==
    IF trimmedHeader = "" THEN headerLine
    ELSE HeaderWithDate(headerLine, commentPart, trimmedHeader,
                        extractDateComponents(trimmedHeader), opts)

HeaderSplitAt(headerLine, commentIndex, opts) ==
    IF commentIndex # -1
    THEN HeaderWithoutComment(headerLine, Slice(headerLine, commentIndex),
                              Trim(Prefix(headerLine, commentIndex)), opts)
    ELSE HeaderWithoutComment(headerLine, "", Trim(headerLine), opts)

formatTransactionHeader(headerLine, opts) ==
    HeaderSplitAt(headerLine, CommentIndexFrom(headerLine, IndexOf(headerLine, ";", 0)),
                  opts)

(***************************************************************************)
(* Posting details                                                         *)
(***************************************************************************)
NoText == [some |-> FALSE, str |-> ""]

SomeText(s) == [some |-> TRUE, str |-> s]

\* length of the whitespace run starting at 0-based index i
RECURSIVE SpaceRun(_, _)
SpaceRun(s, i) ==
    IF i < Len(s) /\ IsSpace(Ch(s, i + 1)) THEN 1 + SpaceRun(s, i + 1) ELSE 0

\* /\s{2,}|\t+/ matches at 0-based index i: a whitespace run of two or more
\* characters, or a single tab
SeparatorLength(s, i) ==
    LET n == SpaceRun(s, i)
    IN  IF n >= 2 THEN n
        ELSE IF n = 1 /\ Ch(s, i + 1) = "\t" THEN 1
        ELSE 0

\* trimmed.split(/\s{2,}|\t+/), scanning from 0-based index i with the
\* current piece starting at index from
RECURSIVE SplitAccountAmount(_, _, _)
SplitAccountAmount(s, from, i) ==
    IF i >= Len(s) THEN <<Slice(s, from)>>
    ELSE LET n == SeparatorLength(s, i)
         IN  IF n > 0
             THEN <<SubSeq(s, from + 1, i)>> \o SplitAccountAmount(s, i + n, i + n)
             ELSE SplitAccountAmount(s, from, i + 1)

RECURSIVE JoinWith(_, _)
JoinWith(parts, sep) ==
    IF parts = <<>> THEN ""
    ELSE IF Len(parts) = 1 THEN parts[1]
    ELSE parts[1] \o sep \o JoinWith(Tail(parts), sep)

\* the numeric alternatives of the fallback expression match at index q:
\* \$-?\d+... | \-\$\d+... | \d+...
NumericStartsAt(s, q) ==
    \/ IsDigit(Ch(s, q + 1))
    \/ Ch(s, q + 1) = "$" /\ IsDigit(Ch(s, q + 2))
    \/ Ch(s, q + 1) = "$" /\ Ch(s, q + 2) = "-" /\ IsDigit(Ch(s, q + 3))
    \/ Ch(s, q + 1) = "-" /\ Ch(s, q + 2) = "$" /\ IsDigit(Ch(s, q + 3))

\* The fallback expression ^(\S+(?:\s+\S+)*?)(?:\s*)(numeric)(.*)$ on a text
\* with single spaces only.  The account group ends at p (it ends with a
\* non-space character) and the numeric part starts after the spaces that
\* follow p.  The backtracking order of the expression tries the ends of
\* the words from left to right, then the places inside the words from
\* right to left.
AccountEndOk(s, p) ==
    /\ p >= 1 /\ p < Len(s)
    /\ ~IsSpace(Ch(s, p))
    /\ NumericStartsAt(s, p + SpaceRun(s, p))

IsWordEnd(s, p) == ~IsSpace(Ch(s, p)) /\ IsSpace(Ch(s, p + 1))

RECURSIVE FirstWordEnd(_, _)
FirstWordEnd(s, p) ==
    IF p >= Len(s) THEN 0
    ELSE IF IsWordEnd(s, p) /\ AccountEndOk(s, p) THEN p
    ELSE FirstWordEnd(s, p + 1)

RECURSIVE LastInsideWord(_, _)
LastInsideWord(s, p) ==
    IF p < 1 THEN 0
    ELSE IF ~IsWordEnd(s, p) /\ AccountEndOk(s, p) THEN p
    ELSE LastInsideWord(s, p - 1)

FallbackAccountEndAfter(s, w) == IF w > 0 THEN w ELSE LastInsideWord(s, Len(s) - 1)

\* the fallback expression matched with the account ending at p, or (p = 0)
\* did not match
DetailFromFallback(trimmed, p) ==
    IF p > 0
    THEN [trimmed |-> trimmed,
          account |-> SomeText(Trim(Prefix(trimmed, p))),
          amount |-> SomeText(Trim(Slice(trimmed, p + SpaceRun(trimmed, p))))]
    ELSE [trimmed |-> trimmed, account |-> SomeText(trimmed), amount |-> NoText]

DetailFromParts(trimmed, parts) ==
    IF Len(parts) >= 2
    THEN [trimmed |-> trimmed,
          account |-> SomeText(Trim(parts[1])),
          amount |-> SomeText(Trim(JoinWith(Tail(parts), " ")))]
    ELSE DetailFromFallback(trimmed,
                            FallbackAccountEndAfter(trimmed, FirstWordEnd(trimmed, 1)))

extractPostingDetail(line) ==
    IF Trim(line) = ""
    THEN [trimmed |-> Trim(line), account |-> NoText, amount |-> NoText]
    ELSE DetailFromParts(Trim(line), SplitAccountAmount(Trim(line), 0, 0))

\* the symbols of symbolLeadingRegex and signLeadingRegex
StyleSymbols == {"$", "€", "£", "¥"}

\* amount: a non-empty string
formatAmountWithStyle(amount, style) ==
    IF style = "signBeforeSymbol"
    THEN IF Ch(amount, 1) \in StyleSymbols /\ Ch(amount, 2) = "-" /\ IsDigit(Ch(amount, 3))
         THEN "-" \o Ch(amount, 1) \o Slice(amount, 2)
         ELSE amount
    ELSE IF Ch(amount, 1) = "-" /\ Ch(amount, 2) \in StyleSymbols /\ IsDigit(Ch(amount, 3))
         THEN Ch(amount, 2) \o "-" \o Slice(amount, 2)
         ELSE amount

\* the amount taken to start with its first digit
NoDigitsPrefix(amount) == 0

getDigitsPrefixLength(amount) ==
    IF FirstDigitFrom(TrimStart(amount), 0) = -1 THEN Len(TrimStart(amount))
    ELSE FirstDigitFrom(TrimStart(amount), 0)


(***************************************************************************)
(* Posting aligner                                                         *)
(***************************************************************************)
RECURSIVE SelectLines(_, _)
SelectLines(lines, keepComments) ==
    IF lines = <<>> THEN <<>>
    ELSE IF isCommentLine(Head(lines)) = keepComments
    THEN <<Head(lines)>> \o SelectLines(Tail(lines), keepComments)
    ELSE SelectLines(Tail(lines), keepComments)

\* formatted: the amount in the configured style, trimmed, if the posting
\* has an account and an amount
PreparedOf(detail, formatted) ==
    [detail |-> detail,
     hasAccount |-> detail.account.some /\ detail.account.str # "",
     formattedAmount |-> IF formatted.some /\ formatted.str # "" THEN formatted ELSE NoText,
     digitsPrefixLength |->
        IF formatted.some /\ formatted.str # ""
        THEN getDigitsPrefixLength(formatted.str) ELSE 0]

PrepareDetail(detail, opts) ==
    PreparedOf(detail,
               IF detail.account.some /\ detail.account.str # ""
                  /\ detail.amount.some /\ Len(detail.amount.str) > 0
               THEN SomeText(Trim(formatAmountWithStyle(detail.amount.str,
                                                        opts.negativeCommodityStyle)))
               ELSE NoText)

RECURSIVE MaxOver(_, _)
MaxOver(xs, least) ==
    IF xs = <<>> THEN least ELSE Max(Head(xs), MaxOver(Tail(xs), least))

\* the configured column counted from one, in both alignment modes
OneBasedDigitsColumn(prepared, opts) == opts.amountColumnPosition - 1

BaseDigitsColumn(prepared, opts) ==
    LET indentWidth == Max(0, opts.indentationWidth)
        referenceAccountLength ==
            MaxOver([i \in 1..Len(prepared) |->
                        IF prepared[i].hasAccount
                        THEN Len(prepared[i].detail.account.str) ELSE 0], 0)
        fallbackColumn == indentWidth + referenceAccountLength + 2
        digitColumnCandidates ==
            [i \in 1..Len(prepared) |->
                IF prepared[i].hasAccount /\ prepared[i].formattedAmount.some
                THEN indentWidth + Len(prepared[i].detail.account.str)
                        + prepared[i].digitsPrefixLength + 2
                ELSE 0]
    IN  IF opts.amountAlignment = "widest"
        THEN MaxOver(digitColumnCandidates, fallbackColumn)
        ELSE opts.amountColumnPosition

FormatPosting(prepared, baseDigitsColumn, opts) ==
    LET indentWidth == Max(0, opts.indentationWidth)
        indentStr == Repeat(" ", indentWidth)
        detail == prepared.detail
        paddingTarget ==
            baseDigitsColumn - (indentWidth + Len(detail.account.str))
                - prepared.digitsPrefixLength
        paddingNeeded == Max(2, paddingTarget)
    IN  IF ~prepared.hasAccount THEN indentStr \o detail.trimmed
        ELSE IF ~prepared.formattedAmount.some THEN indentStr \o detail.trimmed
        ELSE indentStr \o detail.account.str \o Repeat(" ", paddingNeeded)
                \o prepared.formattedAmount.str

\* the loop that pushes the posting lines
FormatAligned(preparedPostings, baseDigitsColumn, opts) ==
    [i \in 1..Len(preparedPostings) |->
        FormatPosting(preparedPostings[i], baseDigitsColumn, opts)]

FormatPrepared(preparedPostings, opts) ==
    FormatAligned(preparedPostings, BaseDigitsColumn(preparedPostings, opts), opts)

FormatPostings(postingLines, opts) ==
    FormatPrepared([i \in 1..Len(postingLines) |->
                        PrepareDetail(extractPostingDetail(postingLines[i]), opts)],
                   opts)

\* the header, then the comment lines, then the posting lines
formatTransaction(lines, opts) ==
    IF Len(lines) <= 1 THEN lines
    ELSE <<formatTransactionHeader(lines[1], opts)>>
            \o SelectLines(Tail(lines), TRUE)
            \o FormatPostings(SelectLines(Tail(lines), FALSE), opts)

(***************************************************************************)
(* formatHledgerJournal                                                    *)
(***************************************************************************)
\* the loop's variables with hasContent set before any line was seen
ContentSeenAtStart ==
    [formattedLines |-> <<>>, inTransaction |-> FALSE, transactionLines |-> <<>>,
     lastWasTransaction |-> FALSE, hasContent |-> TRUE, inCommentBlock |-> FALSE]

\* the loop's variables before the first line
FormatLoopInit ==
    [formattedLines |-> <<>>, inTransaction |-> FALSE, transactionLines |-> <<>>,
     lastWasTransaction |-> FALSE, hasContent |-> FALSE, inCommentBlock |-> FALSE]

\* one iteration of the loop over the lines; flushed: formattedLines after
\* formattedLines.push(...formatTransaction(transactionLines, options))
FormatTrimmedLine(st, line, trimmed, flushed) ==
    IF isCommentBlockStart(trimmed)
    THEN [st EXCEPT !.inCommentBlock = TRUE,
                    !.formattedLines =
                        (IF st.inTransaction THEN flushed ELSE st.formattedLines)
                            \o <<line>>,
                    !.transactionLines =
                        IF st.inTransaction THEN <<>> ELSE st.transactionLines,
                    !.inTransaction = FALSE,
                    !.lastWasTransaction = FALSE,
                    !.hasContent = TRUE]
    ELSE IF st.inCommentBlock
    THEN [st EXCEPT !.formattedLines = st.formattedLines \o <<line>>,
                    !.inCommentBlock = ~isCommentBlockEnd(trimmed)]
    ELSE IF trimmed = ""
    THEN IF st.inTransaction
         THEN [st EXCEPT !.formattedLines = flushed \o <<"">>,
                         !.transactionLines = <<>>,
                         !.inTransaction = FALSE,
                         !.lastWasTransaction = TRUE,
                         !.hasContent = TRUE]
         ELSE IF ~st.lastWasTransaction /\ st.hasContent
         THEN [st EXCEPT !.formattedLines = st.formattedLines \o <<line>>]
         ELSE st
    ELSE IF isCommentLine(trimmed)
    THEN IF st.inTransaction
         THEN [st EXCEPT !.transactionLines = st.transactionLines \o <<line>>]
         ELSE [st EXCEPT !.formattedLines = st.formattedLines \o <<line>>,
                         !.lastWasTransaction = FALSE,
                         !.hasContent = TRUE]
    ELSE IF isTransactionHeaderLine(trimmed)
    THEN [st EXCEPT !.formattedLines =
                        IF st.inTransaction THEN flushed \o <<"">>
                        ELSE st.formattedLines,
                    !.transactionLines =
                        (IF st.inTransaction THEN <<>> ELSE st.transactionLines)
                            \o <<line>>,
                    !.inTransaction = TRUE,
                    !.lastWasTransaction = FALSE,
                    !.hasContent = TRUE]
    ELSE IF st.inTransaction
    THEN [st EXCEPT !.transactionLines = st.transactionLines \o <<line>>]
    ELSE [st EXCEPT !.formattedLines = st.formattedLines \o <<line>>,
                    !.lastWasTransaction = FALSE,
                    !.hasContent = TRUE]

FormatLine(st, line, opts) ==
    FormatTrimmedLine(st, line, Trim(line),
                      st.formattedLines \o formatTransaction(st.transactionLines, opts))

RECURSIVE FormatLoop(_, _, _, _)
FormatLoop(st, lines, i, opts) ==
    IF i > Len(lines) THEN st
    ELSE FormatLoop(FormatLine(st, lines[i], opts), lines, i + 1, opts)

RECURSIVE DropLeadingEmpty(_)
DropLeadingEmpty(lines) ==
    IF Len(lines) > 0 /\ lines[1] = "" THEN DropLeadingEmpty(Tail(lines)) ELSE lines

RECURSIVE DropTrailingEmpty(_)
DropTrailingEmpty(lines) ==
    IF Len(lines) > 1 /\ lines[Len(lines)] = "" /\ lines[Len(lines) - 1] = ""
    THEN DropTrailingEmpty(SubSeq(lines, 1, Len(lines) - 1))
    ELSE lines

\* [].join('\n') is the empty string, whose lines are <<"">>
JoinLines(lines) == IF lines = <<>> THEN <<"">> ELSE lines

\* a loop end that leaves the open transaction unflushed
UnflushedEnd(st, opts) == st.formattedLines

\* the flush after the loop
FormatEnd(st, opts) ==
    IF st.inTransaction /\ Len(st.transactionLines) > 0
    THEN st.formattedLines \o formatTransaction(st.transactionLines, opts) \o <<"">>
    ELSE st.formattedLines

formatHledgerJournal(txt, optionsOrColumn) ==
    JoinLines(DropTrailingEmpty(DropLeadingEmpty(
        FormatEnd(FormatLoop(FormatLoopInit, txt, 1,
                             normalizeFormatterOptions(optionsOrColumn)),
                  normalizeFormatterOptions(optionsOrColumn)))))


(***************************************************************************)
(* Sorter                                                                  *)
(***************************************************************************)
\* the lookahead of the blank-line branch: the first non-blank line after
\* 1-based index i is a transaction header
RECURSIVE NextTransactionFound(_, _)
NextTransactionFound(lines, j) ==
    IF j > Len(lines) THEN FALSE
    ELSE IF Trim(lines[j]) # "" THEN isTransactionHeaderLine(Trim(lines[j]))
    ELSE NextTransactionFound(lines, j + 1)

ParseLoopInit ==
    [transactions |-> <<>>, currentTransaction |-> <<>>, currentDate |-> "",
     leadingLines |-> <<>>, inTransaction |-> FALSE, hasSeenTransaction |-> FALSE]

\* one iteration of the loop of parseTransactionsWithLeading; a content is
\* kept as its lines (currentTransaction.join('\n'))
\* saved: transactions after the push of the current transaction
ParseDatedLine(st, lines, i, dateInfo, saved) ==
    IF dateInfo.ok
    THEN [st EXCEPT !.hasSeenTransaction = TRUE,
                    !.transactions =
                        IF st.inTransaction /\ Len(st.currentTransaction) > 0
                        THEN saved ELSE st.transactions,
                    !.currentDate = toIsoDate(dateInfo),
                    !.currentTransaction = <<lines[i]>>,
                    !.inTransaction = TRUE]
    ELSE IF st.inTransaction
    THEN IF Trim(lines[i]) = "" /\ NextTransactionFound(lines, i + 1)
         THEN [st EXCEPT !.transactions = saved,
                         !.currentTransaction = <<>>,
                         !.inTransaction = FALSE]
         ELSE [st EXCEPT !.currentTransaction = st.currentTransaction \o <<lines[i]>>]
    ELSE IF ~st.hasSeenTransaction
    THEN [st EXCEPT !.leadingLines = st.leadingLines \o <<lines[i]>>]
    ELSE st

ParseLine(st, lines, i) ==
    ParseDatedLine(st, lines, i, extractDateComponents(Trim(lines[i])),
                   st.transactions
                        \o <<[date |-> st.currentDate, content |-> st.currentTransaction]>>)

RECURSIVE ParseLoop(_, _, _)
ParseLoop(st, lines, i) ==
    IF i > Len(lines) THEN st ELSE ParseLoop(ParseLine(st, lines, i), lines, i + 1)

RECURSIVE DropTrailingBlank(_)
DropTrailingBlank(lines) ==
    IF Len(lines) > 0 /\ Trim(lines[Len(lines)]) = ""
    THEN DropTrailingBlank(SubSeq(lines, 1, Len(lines) - 1))
    ELSE lines

\* what follows the loop: the last transaction, the leading content
ParsedOf(st) ==
    [leadingContent |-> DropTrailingBlank(st.leadingLines),
     transactions |->
        IF st.inTransaction /\ Len(st.currentTransaction) > 0
        THEN st.transactions
                \o <<[date |-> st.currentDate, content |-> st.currentTransaction]>>
        ELSE st.transactions]

\* the transactions alone, the leading content dropped
ParseWithoutLeading(txt) ==
    [ParsedOf(ParseLoop(ParseLoopInit, txt, 1)) EXCEPT !.leadingContent = <<>>]

parseTransactionsWithLeading(txt) == ParsedOf(ParseLoop(ParseLoopInit, txt, 1))

\* Array.prototype.sort is stable: each element goes after the elements
\* that do not compare greater than it
RECURSIVE InsertByDate(_, _)
InsertByDate(sorted, t) ==
    IF sorted = <<>> THEN <<t>>
    ELSE IF IsoLess(t.date, Head(sorted).date) THEN <<t>> \o sorted
    ELSE <<Head(sorted)>> \o InsertByDate(Tail(sorted), t)

RECURSIVE SortByDate(_)
SortByDate(ts) ==
    IF ts = <<>> THEN <<>>
    ELSE InsertByDate(SortByDate(SubSeq(ts, 1, Len(ts) - 1)), ts[Len(ts)])

\* the string of these lines ends with k newlines
EndsWithNewlines(lines, k) ==
    Len(lines) > k /\ \A i \in 1..k : lines[Len(lines) + 1 - i] = ""

\* the pieces pushed on result for the sorted transactions from index i
RECURSIVE SortedPieces(_, _)
SortedPieces(ts, i) ==
    IF i > Len(ts) THEN <<>>
    ELSE <<ts[i].content>>
            \o (IF i < Len(ts) /\ ~EndsWithNewlines(ts[i].content, 2)
                THEN <<<<"">>>> ELSE <<>>)
            \o SortedPieces(ts, i + 1)

\* result.join('\n'): each piece is a string with its own lines
RebuiltText(leadingContent, sorted) ==
    JoinLines(Flatten(
        (IF leadingContent # <<>>
         THEN <<leadingContent>> \o (IF Len(sorted) > 0 THEN <<<<"">>>> ELSE <<>>)
         ELSE <<>>)
        \o SortedPieces(sorted, 1)))

\* the newline added when the original text ended with one
WithFinalNewline(txt, finalText) ==
    IF EndsWithNewlines(txt, 1) /\ ~EndsWithNewlines(finalText, 1)
    THEN finalText \o <<"">>
    ELSE finalText

SortParsed(txt, parsed) ==
    WithFinalNewline(txt, RebuiltText(parsed.leadingContent, SortByDate(parsed.transactions)))

sortHledgerJournal(txt) == SortParsed(txt, parseTransactionsWithLeading(txt))

(***************************************************************************)
(* Comment toggler                                                         *)
(***************************************************************************)
\* the comment character and everything after it, the optional space kept
CommentLineKeepingSpace(line, lead) ==
    IF Ch(line, lead + 1) \in CommentCharacters
    THEN [ok |-> TRUE, char |-> Ch(line, lead + 1),
          leadingWhitespace |-> Prefix(line, lead),
          content |-> Slice(line, lead + 1)]
    ELSE [ok |-> FALSE, char |-> "", leadingWhitespace |-> "", content |-> ""]

\* /^(\s*)([#;*])\s?(.*)$/
\* lead: the length of the leading whitespace
CommentLineAt(line, lead) ==
    IF Ch(line, lead + 1) \in CommentCharacters
    THEN [ok |-> TRUE, char |-> Ch(line, lead + 1),
          leadingWhitespace |-> Prefix(line, lead),
          content |-> Slice(line, IF IsSpace(Ch(line, lead + 2)) THEN lead + 2 ELSE lead + 1)]
    ELSE [ok |-> FALSE, char |-> "", leadingWhitespace |-> "", content |-> ""]

parseCommentLine(line) == CommentLineAt(line, LeadingSpaces(line, 0))

\* the 1-based indices of the lines the two passes visit
ToggleRange(lines, startLine, endLine) ==
    {n \in 1..Len(lines) : startLine + 1 <= n /\ n <= endLine + 1}

\* the first pass
\* the second pass commenting every line, a comment line included
CommentEveryLine(lineText, parsedComment, hasUncommentedLines, opts) ==
    IF hasUncommentedLines
    THEN Prefix(lineText, LeadingSpaces(lineText, 0)) \o opts.commentCharacter
            \o " " \o Slice(lineText, LeadingSpaces(lineText, 0))
    ELSE IF parsedComment.ok
    THEN parsedComment.leadingWhitespace \o parsedComment.content
    ELSE lineText

\* the second pass on one line that is not blank
ToggledLine(lineText, parsedComment, hasUncommentedLines, opts) ==
    IF hasUncommentedLines
    THEN IF ~parsedComment.ok
         THEN Prefix(lineText, LeadingSpaces(lineText, 0)) \o opts.commentCharacter
                \o " " \o Slice(lineText, LeadingSpaces(lineText, 0))
         ELSE lineText
    ELSE IF parsedComment.ok
    THEN parsedComment.leadingWhitespace \o parsedComment.content
    ELSE lineText

ToggleVisited(lines, visited, hasUncommentedLines, opts) ==
    [n \in 1..Len(lines) |->
        IF n \in visited /\ Trim(lines[n]) # ""
        THEN ToggledLine(lines[n], parseCommentLine(lines[n]), hasUncommentedLines, opts)
        ELSE lines[n]]

toggleCommentLines(txt, startLine, endLine, optionsOrColumn) ==
    ToggleVisited(txt, ToggleRange(txt, startLine, endLine),
                  \E n \in ToggleRange(txt, startLine, endLine) :
                        Trim(txt[n]) # "" /\ ~parseCommentLine(txt[n]).ok,
                  normalizeFormatterOptions(optionsOrColumn))


(***************************************************************************)
(* Amount parser and formatter                                             *)
(***************************************************************************)
\* Amounts are decimals with Precision fractional digits: the value is the
\* integer number of units of 10^-Precision.  Inputs have at most two
\* fractional digits, so no toFixed(2) rounding is a tie.
Precision == 2

Scale == 10 ^ Precision

\* the end (0-based, exclusive) of \d+(?:,\d+)* starting at index i, where
\* s has a digit
RECURSIVE CommaGroupsEnd(_, _)
RECURSIVE CommaGroupsNext(_, _)
CommaGroupsEnd(s, i) == CommaGroupsNext(s, i + DigitRun(s, i))

\* e: the end of a digit run
CommaGroupsNext(s, e) ==
    IF Ch(s, e + 1) = "," /\ IsDigit(Ch(s, e + 2)) THEN CommaGroupsEnd(s, e + 1) ELSE e

\* the end of \d+(?:,\d+)*(?:\.\d+)? starting at index i
NumericEnd(s, i) ==
    IF Ch(s, CommaGroupsEnd(s, i) + 1) = "." /\ IsDigit(Ch(s, CommaGroupsEnd(s, i) + 2))
    THEN CommaGroupsEnd(s, i) + 1 + DigitRun(s, CommaGroupsEnd(s, i) + 1)
    ELSE CommaGroupsEnd(s, i)

RECURSIVE RemoveCommas(_)
RemoveCommas(s) ==
    IF s = "" THEN ""
    ELSE (IF Ch(s, 1) = "," THEN "" ELSE Ch(s, 1)) \o RemoveCommas(Tail(s))

\* parseFloat of digits, optionally followed by '.' and digits and then by
\* anything else, in units of 10^-Precision
\* n: the length of the integer part; the number of fractional digits kept
FractionDigits(s, n) ==
    Min(IF Ch(s, n + 1) = "." THEN DigitRun(s, n + 1) ELSE 0, Precision)

FloatAt(s, n) ==
    ParseNat(Prefix(s, n)) * Scale
        + ParseNat(SubSeq(s, n + 2, n + 1 + FractionDigits(s, n))
                    \o Repeat("0", Precision - FractionDigits(s, n)))

ParseFloat(s) == FloatAt(s, DigitRun(s, 0))

\* a digit string with a comma and no '.' has its first comma replaced by '.'
parseNumber(numStr) ==
    IF IndexOf(numStr, ",", 0) # -1 /\ IndexOf(numStr, ".", 0) = -1
    THEN ParseFloat(Prefix(numStr, IndexOf(numStr, ",", 0)) \o "."
                        \o Slice(numStr, IndexOf(numStr, ",", 0) + 1))
    ELSE ParseFloat(RemoveCommas(numStr))

\* [^\d\-+.@*;\t "{}=]
IsCurrencyChar(c) ==
    /\ c # ""
    /\ ~IsDigit(c)
    /\ c \notin {"-", "+", ".", "@", "*", ";", "\t", " ", "\"", "{", "}", "="}

RECURSIVE CurrencyRun(_, _)
CurrencyRun(s, i) ==
    IF IsCurrencyChar(Ch(s, i + 1)) THEN 1 + CurrencyRun(s, i + 1) ELSE 0

\* the length of "[^"]+"|[^\d\-+.@*;\t "{}=]+ at index i, 0 without a match
CurrencyLength(s, i) ==
    IF Ch(s, i + 1) = "\""
    THEN IF IndexOf(s, "\"", i + 1) >= i + 2 THEN IndexOf(s, "\"", i + 1) + 1 - i ELSE 0
    ELSE CurrencyRun(s, i)

NoAmount == [ok |-> FALSE, value |-> 0, currency |-> ""]

\* /^(-)?("[^"]+"|[^\d\-+.@*;\t "{}=]+)\s*(-)?(\d+(?:,\d+)*(?:\.\d+)?)(.*)$/
Signed(value, isNegative) == IF isNegative THEN -value ELSE value

\* the currency at c0 with length clen, the number at n0
CurrencyFirstNumber(trimmed, c0, clen, n0, isNegative) ==
    IF clen > 0 /\ IsDigit(Ch(trimmed, n0 + 1))
    THEN [ok |-> TRUE,
          value |-> Signed(parseNumber(SubSeq(trimmed, n0 + 1, NumericEnd(trimmed, n0))),
                           isNegative),
          currency |-> SubSeq(trimmed, c0 + 1, c0 + clen)]
    ELSE NoAmount

\* s0: the index after the currency and the whitespace, where the second
\* sign may be
CurrencyFirstSign(trimmed, c0, clen, s0) ==
    CurrencyFirstNumber(trimmed, c0, clen,
                        IF Ch(trimmed, s0 + 1) = "-" THEN s0 + 1 ELSE s0,
                        c0 = 1 \/ Ch(trimmed, s0 + 1) = "-")

\* c0: the index after the optional first sign
CurrencyFirstFrom(trimmed, c0) ==
    CurrencyFirstSign(trimmed, c0, CurrencyLength(trimmed, c0),
                      c0 + CurrencyLength(trimmed, c0)
                        + SpaceRun(trimmed, c0 + CurrencyLength(trimmed, c0)))

\* /^(-)?(\d+(?:,\d+)*(?:\.\d+)?)\s*("[^"]+"|[^\d\-+.@*;\t "{}=]+)?$/
\* the number from n0, the index after the optional sign, to n1, the currency
\* at c0 with length clen
NumberFirstCurrency(trimmed, n0, n1, c0, clen) ==
    IF IsDigit(Ch(trimmed, n0 + 1)) /\ c0 + clen = Len(trimmed)
    THEN [ok |-> TRUE,
          value |-> Signed(parseNumber(SubSeq(trimmed, n0 + 1, n1)), n0 = 1),
          currency |-> IF clen > 0 THEN SubSeq(trimmed, c0 + 1, c0 + clen) ELSE "$"]
    ELSE NoAmount

NumberFirstNumber(trimmed, n0, n1) ==
    NumberFirstCurrency(trimmed, n0, n1, n1 + SpaceRun(trimmed, n1),
                        CurrencyLength(trimmed, n1 + SpaceRun(trimmed, n1)))

ParseTrimmedAmount(trimmed) ==
    IF CurrencyFirstFrom(trimmed, IF Ch(trimmed, 1) = "-" THEN 1 ELSE 0).ok
    THEN CurrencyFirstFrom(trimmed, IF Ch(trimmed, 1) = "-" THEN 1 ELSE 0)
    ELSE NumberFirstNumber(trimmed, IF Ch(trimmed, 1) = "-" THEN 1 ELSE 0,
                           NumericEnd(trimmed, IF Ch(trimmed, 1) = "-" THEN 1 ELSE 0))

parseAmount(amountStr) == ParseTrimmedAmount(Trim(amountStr))

\* replace(/\B(?=(\d{3})+(?!\d))/g, ','): a comma before every group of
\* three digits of the integer part
RECURSIVE GroupThousands(_)
GroupThousands(digits) ==
    IF Len(digits) <= 3 THEN digits
    ELSE GroupThousands(Prefix(digits, Len(digits) - 3)) \o ","
            \o Slice(digits, Len(digits) - 3)

\* absValue.toFixed(2): the nearest number of cents, written with two
\* fractional digits
ToFixed2(absValue) ==
    NatToString(((absValue + (Scale \div 100) \div 2) \div (Scale \div 100)) \div 100)
        \o "."
        \o PadStart(NatToString(((absValue + (Scale \div 100) \div 2)
                                    \div (Scale \div 100)) % 100), 2, "0")

FormattedNumber(fixed) ==
    GroupThousands(Prefix(fixed, IndexOf(fixed, ".", 0)))
        \o Slice(fixed, IndexOf(fixed, ".", 0))

SignedAmount(isNegative, currency, formattedNumber, style) ==
    IF style = "signBeforeSymbol"
    THEN (IF isNegative THEN "-" ELSE "") \o currency \o formattedNumber
    ELSE currency \o (IF isNegative THEN "-" ELSE "") \o formattedNumber

formatAmountValue(value, currency, style) ==
    SignedAmount(value < 0, currency,
                 FormattedNumber(ToFixed2(IF value < 0 THEN -value ELSE value)), style)


(***************************************************************************)
(* Balancing-amount inferencer                                             *)
(***************************************************************************)
\* [A-Za-z0-9_.-]
IsKeyChar(c) ==
    \/ c \in
        {"a", "b", "c", "d", "e", "f", "g", "h", "i", "j", "k", "l", "m",
         "n", "o", "p", "q", "r", "s", "t", "u", "v", "w", "x", "y", "z",
         "A", "B", "C", "D", "E", "F", "G", "H", "I", "J", "K", "L", "M",
         "N", "O", "P", "Q", "R", "S", "T", "U", "V", "W", "X", "Y", "Z"}
    \/ IsDigit(c)
    \/ c \in {"_", ".", "-"}

RECURSIVE KeyRun(_, _)
KeyRun(s, i) == IF IsKeyChar(Ch(s, i + 1)) THEN 1 + KeyRun(s, i + 1) ELSE 0

\* /\s{2,}|\t/.test(s)
RECURSIVE HasAmountGap(_, _)
HasAmountGap(s, i) ==
    IF i >= Len(s) THEN FALSE
    ELSE IF Ch(s, i + 1) = "\t" \/ SpaceRun(s, i) >= 2 THEN TRUE
    ELSE HasAmountGap(s, i + 1)

\* /^[A-Za-z0-9_.-]+:(\s+.*)?$/ with a key of KeyRun characters
isMetadataPostingLine(trimmedLine) ==
    IF trimmedLine = "" THEN FALSE
    ELSE IF HasAmountGap(trimmedLine, 0) THEN FALSE
    ELSE /\ KeyRun(trimmedLine, 0) >= 1
         /\ Ch(trimmedLine, KeyRun(trimmedLine, 0) + 1) = ":"
         /\ \/ Len(trimmedLine) = KeyRun(trimmedLine, 0) + 1
            \/ IsSpace(Ch(trimmedLine, KeyRun(trimmedLine, 0) + 2))

\* /:\s/.test(s)
RECURSIVE HasColonSpace(_, _)
HasColonSpace(s, i) ==
    IF i >= Len(s) THEN FALSE
    ELSE IF Ch(s, i + 1) = ":" /\ IsSpace(Ch(s, i + 2)) THEN TRUE
    ELSE HasColonSpace(s, i + 1)

\* acct: the text of an account, NoText for null
\* trimmedAccount.endsWith(':') || /:\s/.test(trimmedAccount)
isMetadataPostingAccount(acct) ==
    IF ~acct.some \/ acct.str = "" THEN FALSE
    ELSE Ch(Trim(acct.str), Len(Trim(acct.str))) = ":" \/ HasColonSpace(Trim(acct.str), 0)

findAccountEndColumn(line, acct, indentLength) ==
    IF IndexOf(line, acct, indentLength) # -1
    THEN IndexOf(line, acct, indentLength) + Len(acct)
    ELSE indentLength + Len(acct)

\* -1 stands for null
RECURSIVE findDigitsColumnInLine(_, _)
findDigitsColumnInLine(line, startIndex) ==
    IF startIndex >= Len(line) THEN -1
    ELSE IF Ch(line, startIndex + 1) = ";" THEN -1
    ELSE IF IsDigit(Ch(line, startIndex + 1)) THEN startIndex
    ELSE findDigitsColumnInLine(line, startIndex + 1)

\* the scan skipping only the lines without an account
SkipsBlankOnly(trimmed, detail) == trimmed = "" \/ ~detail.account.some \/ detail.account.str = ""

\* the scan skips the line
SkipsTrimmed(trimmed, detail) ==
    \/ trimmed = ""
    \/ isCommentLine(trimmed)
    \/ isMetadataPostingLine(trimmed)
    \/ ~detail.account.some
    \/ detail.account.str = ""
    \/ isMetadataPostingAccount(detail.account)

\* the posting lines that the scan keeps (not blank, comment or metadata)
RECURSIVE PostingLinesOf(_)
PostingLinesOf(lines) ==
    IF lines = <<>> THEN <<>>
    ELSE (IF SkipsTrimmed(Trim(Head(lines)), extractPostingDetail(Head(lines)))
          THEN <<>> ELSE <<Head(lines)>>)
            \o PostingLinesOf(Tail(lines))

PostingWith(line, detail, parsed) ==
    [line |-> line, hasAmount |-> parsed.ok, amount |-> parsed.value,
     currency |-> parsed.currency, account |-> detail.account.str]

PostingOf(line, detail) ==
    PostingWith(line, detail,
                IF detail.amount.some /\ detail.amount.str # ""
                THEN parseAmount(detail.amount.str) ELSE NoAmount)

\* postings
ParsePostings(transactionLines) ==
    [i \in 1..Len(PostingLinesOf(Tail(transactionLines))) |->
        PostingOf(PostingLinesOf(Tail(transactionLines))[i],
                  extractPostingDetail(PostingLinesOf(Tail(transactionLines))[i]))]

RECURSIVE SumAmounts(_)
SumAmounts(postings) ==
    IF postings = <<>> THEN 0
    ELSE (IF Head(postings).hasAmount THEN Head(postings).amount ELSE 0)
            + SumAmounts(Tail(postings))

\* the keys of amountsByCurrency
CurrenciesOf(postings) ==
    {postings[i].currency : i \in {j \in 1..Len(postings) : postings[j].hasAmount}}

CandidateFrom(posting, detail, postingIndentLength, existingDigitsColumn, opts) ==
    IF existingDigitsColumn # -1 THEN existingDigitsColumn
    ELSE postingIndentLength + Len(posting.account)
            + getDigitsPrefixLength(
                Trim(formatAmountWithStyle(detail.amount.str, opts.negativeCommodityStyle)))
            + 2

CandidateAt(posting, detail, postingIndentLength, opts) ==
    CandidateFrom(posting, detail, postingIndentLength,
                  findDigitsColumnInLine(
                      posting.line,
                      findAccountEndColumn(posting.line, posting.account,
                                           postingIndentLength)),
                  opts)

\* one element of digitColumnCandidates, -1 for null
CandidateOf(posting, detail, opts) ==
    IF ~detail.amount.some \/ detail.amount.str = "" THEN -1
    ELSE CandidateAt(posting, detail, getLeadingWhitespaceLength(posting.line), opts)

NoContext == [given |-> FALSE, currentLineText |-> "", hasCursor |-> FALSE, cursorColumn |-> 0]

NoSuggestion == [isNull |-> TRUE, str |-> ""]

\* the spaces already present counted from the start of the line
PaddedFromLineStart(formattedAmount, digitsPrefixLength, accountEndColumn, cursorColumn, baseDigitsColumn) ==
    [isNull |-> FALSE,
     str |-> Repeat(" ",
                    Max(0, Max(2, baseDigitsColumn - accountEndColumn - digitsPrefixLength)
                            - Max(0, cursorColumn)))
                \o formattedAmount]

\* the spaces and the amount returned
Padded(formattedAmount, digitsPrefixLength, accountEndColumn, cursorColumn, baseDigitsColumn) ==
    [isNull |-> FALSE,
     str |-> Repeat(" ",
                    Max(0, Max(2, baseDigitsColumn - accountEndColumn - digitsPrefixLength)
                            - Max(0, cursorColumn - accountEndColumn)))
                \o formattedAmount]

\* cursorDigitsColumn, and cursorDigitsColumnFixed, which is the same
WidestDigitsColumn(postings, opts, currentLineAccountName, digitsPrefixLength, fallbackIndent, cursorDigitsColumn) ==
    MaxOver([i \in 1..Len(postings) |->
                IF postings[i].hasAmount /\ postings[i].account # ""
                THEN CandidateOf(postings[i], extractPostingDetail(postings[i].line), opts)
                ELSE -1],
            Max(fallbackIndent
                    + MaxOver([i \in 1..Len(postings) |-> Len(postings[i].account)],
                              Len(currentLineAccountName))
                    + digitsPrefixLength + 2,
                cursorDigitsColumn))

\* currentIndentLength is fallbackIndent too: both are the indentation of
\* the current line when its text is given and indentWidth otherwise
SpacedAtCursor(postings, opts, currentLineAccountName, formattedAmount, digitsPrefixLength, currentIndentLength, accountEndColumn, cursorColumn) ==
    Padded(formattedAmount, digitsPrefixLength, accountEndColumn, cursorColumn,
           IF opts.amountAlignment = "widest"
           THEN WidestDigitsColumn(postings, opts, currentLineAccountName,
                                   digitsPrefixLength, currentIndentLength,
                                   Max(accountEndColumn + 2 + digitsPrefixLength,
                                       cursorColumn + digitsPrefixLength))
           ELSE Max(opts.amountColumnPosition,
                    Max(accountEndColumn + 2 + digitsPrefixLength,
                        cursorColumn + digitsPrefixLength)))

SpacedAtAccountEnd(postings, opts, currentLineAccountName, ctx, formattedAmount, digitsPrefixLength, currentIndentLength, accountEndColumn) ==
    SpacedAtCursor(postings, opts, currentLineAccountName, formattedAmount,
                   digitsPrefixLength, currentIndentLength, accountEndColumn,
                   IF ctx.given /\ ctx.hasCursor THEN ctx.cursorColumn
                   ELSE accountEndColumn)

SpacedAtIndent(postings, opts, currentLineAccountName, ctx, formattedAmount, digitsPrefixLength, currentLineText, currentIndentLength) ==
    SpacedAtAccountEnd(postings, opts, currentLineAccountName, ctx, formattedAmount,
                       digitsPrefixLength, currentIndentLength,
                       IF currentLineText # ""
                       THEN findAccountEndColumn(currentLineText, currentLineAccountName,
                                                 currentIndentLength)
                       ELSE currentIndentLength + Len(currentLineAccountName))

SpacedInLine(postings, opts, currentLineAccountName, ctx, formattedAmount, currentLineText) ==
    SpacedAtIndent(postings, opts, currentLineAccountName, ctx, formattedAmount,
                   getDigitsPrefixLength(formattedAmount), currentLineText,
                   IF currentLineText # "" THEN getLeadingWhitespaceLength(currentLineText)
                   ELSE Max(0, opts.indentationWidth))

\* Math.abs(balancingValue) < 1e-8 is balancingValue = 0 for these decimals
SuggestionFor(postings, opts, currentLineAccountName, ctx, balancingValue, currency) ==
    IF balancingValue = 0 THEN NoSuggestion
    ELSE SpacedInLine(postings, opts, currentLineAccountName, ctx,
                      formatAmountValue(balancingValue, currency,
                                        opts.negativeCommodityStyle),
                      IF ctx.given THEN ctx.currentLineText ELSE "")

SuggestionOf(postings, opts, currentLineAccountName, ctx) ==
    IF Cardinality({i \in 1..Len(postings) : ~postings[i].hasAmount}) # 1
    THEN NoSuggestion
    ELSE IF Cardinality(CurrenciesOf(postings)) # 1 THEN NoSuggestion
    ELSE SuggestionFor(postings, opts, currentLineAccountName, ctx,
                       -SumAmounts(postings),
                       CHOOSE c \in CurrenciesOf(postings) : TRUE)

\* transactionLines: transaction.lines; opts: the options; ctx: the optional
\* context, its fields optional too
calculateBalancingAmount(transactionLines, opts, currentLineAccountName, ctx) ==
    SuggestionOf(ParsePostings(transactionLines), opts, currentLineAccountName, ctx)


(***************************************************************************)
(* Command line: the sources of the formatting options                     *)
(***************************************************************************)
\* A parsed JSON value is Num(n), Str(x) or an object: a function from
\* its keys to JSON values.  A flag or an environment variable that is set
\* is a key of its function, with a string as value.
isObjectRecord(value) == "type" \notin DOMAIN value

\* every number of the model is an integer; Undefined stands for null
parseInteger(value) ==
    IF value.type = "number" /\ value.v >= 0 THEN value ELSE Undefined

\* value: a string, or Undefined
parseIntegerString(value) ==
    IF value = Undefined THEN Undefined
    ELSE IF value.v = "" \/ DigitRun(value.v, 0) # Len(value.v) THEN Undefined
    ELSE Num(ParseNat(value.v))

\* the key of the config file's format object, the flag, the environment
\* variable of an options field, whether it is a number, and its valid
\* strings: VALID_ALIGNMENTS, VALID_NEGATIVE_STYLES, VALID_DATE_FORMATS and
\* VALID_COMMENT_CHARS
OptionSource(f) ==
    CASE f = "amountAlignment" ->
            [key |-> "alignment", env |-> "HLEDGER_FMT_ALIGNMENT", number |-> FALSE,
             valid |-> {"fixedColumn", "widest"}]
      [] f = "amountColumnPosition" ->
            [key |-> "column", env |-> "HLEDGER_FMT_COLUMN", number |-> TRUE,
             valid |-> {}]
      [] f = "indentationWidth" ->
            [key |-> "indent", env |-> "HLEDGER_FMT_INDENT", number |-> TRUE,
             valid |-> {}]
      [] f = "negativeCommodityStyle" ->
            [key |-> "negativeStyle", env |-> "HLEDGER_FMT_NEGATIVE_STYLE",
             number |-> FALSE, valid |-> {"signBeforeSymbol", "symbolBeforeSign"}]
      [] f = "dateFormat" ->
            [key |-> "dateFormat", env |-> "HLEDGER_FMT_DATE_FORMAT", number |-> FALSE,
             valid |-> {"YYYY-MM-DD", "YYYY/MM/DD", "YYYY.MM.DD"}]
      [] OTHER ->
            [key |-> "commentChar", env |-> "HLEDGER_FMT_COMMENT_CHAR",
             number |-> FALSE, valid |-> {";", "#", "*"}]

\* formatValue[key], undefined without the key
ValueAt(object, key) == IF key \in DOMAIN object THEN object[key] ELSE Undefined

\* the check of one key of the format object
ConfigValueOk(f, value) ==
    \/ value = Undefined
    \/ IF OptionSource(f).number THEN parseInteger(value) # Undefined
       ELSE value.type = "string" /\ value.v \in OptionSource(f).valid

\* null is [valid |-> FALSE]; {} has no format
validateConfigShape(raw) ==
    IF ~isObjectRecord(raw) THEN [valid |-> FALSE]
    ELSE IF \E key \in DOMAIN raw : key # "format" THEN [valid |-> FALSE]
    ELSE IF "format" \notin DOMAIN raw THEN [valid |-> TRUE, hasFormat |-> FALSE]
    ELSE IF ~isObjectRecord(raw.format) THEN [valid |-> FALSE]
    ELSE IF \E key \in DOMAIN raw.format :
                key \notin {OptionSource(f).key : f \in OptionFields}
    THEN [valid |-> FALSE]
    ELSE IF \E f \in OptionFields :
                ~ConfigValueOk(f, ValueAt(raw.format, OptionSource(f).key))
    THEN [valid |-> FALSE]
    ELSE [valid |-> TRUE, hasFormat |-> TRUE,
          format |-> [key \in {OptionSource(f).key : f \in OptionFields} |->
                        ValueAt(raw.format, key)]]

\* config: no file found, the file given does not exist, its JSON does not
\* parse, or its parsed JSON.  The object returned for a validated format
\* has all six fields, undefined for the keys the file does not have.
loadFormatOptionsFromConfig(config) ==
    IF config.kind \in {"none", "missing", "unparsable"} THEN NoOptions
    ELSE IF ~validateConfigShape(config.root).valid THEN NoOptions
    ELSE IF ~validateConfigShape(config.root).hasFormat THEN NoOptions
    ELSE [f \in OptionFields |->
            validateConfigShape(config.root).format[OptionSource(f).key]]

\* the value a flag or an environment variable gives a field, Undefined
\* when it is not set or is ignored with a warning
LoadedValue(f, value) ==
    IF OptionSource(f).number THEN parseIntegerString(value)
    ELSE IF value # Undefined /\ value.v \in OptionSource(f).valid THEN value
    ELSE Undefined

\* result: the fields that were assigned
loadFormatOptionsFromEnv(env) ==
    [f \in {g \in OptionFields :
                LoadedValue(g, ValueAt(env, OptionSource(g).env)) # Undefined} |->
        LoadedValue(f, ValueAt(env, OptionSource(f).env))]

loadFormatOptionsFromCli(opts) ==
    [f \in {g \in OptionFields :
                LoadedValue(g, ValueAt(opts, OptionSource(g).key)) # Undefined} |->
        LoadedValue(f, ValueAt(opts, OptionSource(f).key))]

\* { ...a, ...b }: the keys of both, b's value where b has the key
Spread(a, b) ==
    [k \in DOMAIN a \cup DOMAIN b |-> IF k \in DOMAIN b THEN b[k] ELSE a[k]]

resolveFormatterOptions(src) ==
    Spread(Spread(Spread(MergedOptions(NoOptions),
                         loadFormatOptionsFromConfig(src.config)),
                  loadFormatOptionsFromEnv(src.env)),
           loadFormatOptionsFromCli(src.cli))

(***************************************************************************)
(* Account completion of the editor extension: the account cache           *)
(*                                                                         *)
(* The workspace is a directory of files, files[path] the lines of the     *)
(* file at path; a path of an include directive is resolved in that        *)
(* directory.  A request is one call of provideCompletionItems; it runs    *)
(* from one await to the next without interruption, and other requests     *)
(* run while it awaits.                                                    *)
(***************************************************************************)
cacheExpiryMs == 5000

\* extractAccountsFromDocument: the accounts of the posting lines and their
\* parent accounts
extractAccountsFromDocument(lines) ==
    LET WithParents(name) ==
            {name} \cup {Prefix(name, k - 1) : k \in {j \in 1..Len(name) : Ch(name, j) = ":"}}
        \* /^\d{4}[/-]\d{2}[/-]\d{2}/
        Dated(trimmed) ==
            /\ \A k \in {1, 2, 3, 4, 6, 7, 9, 10} : IsDigit(Ch(trimmed, k))
            /\ \A k \in {5, 8} : Ch(trimmed, k) \in {"/", "-"}
        \* /^([^\s;]+(?::[^\s;]+)*)/: up to the first whitespace or ';'
        Stops(trimmed) ==
            {k \in 1..Len(trimmed) : IsSpace(Ch(trimmed, k)) \/ Ch(trimmed, k) = ";"}
        AccountOnly(trimmed) ==
            IF Stops(trimmed) = {} THEN trimmed
            ELSE Prefix(trimmed, (CHOOSE k \in Stops(trimmed) :
                                      \A j \in Stops(trimmed) : k <= j) - 1)
        \* /^([^\s]+(?:\s+[^\s]+)*?)(?:\s{2,}|\t)/: the places of a tab
        \* or of whitespace followed by whitespace, the match ends before
        \* the first
        Gaps(trimmed) ==
            {k \in 1..Len(trimmed) :
                /\ IsSpace(Ch(trimmed, k))
                /\ Ch(trimmed, k) = "\t" \/ IsSpace(Ch(trimmed, k + 1))}
        \* the account of a line: none for a blank line, a comment, a line
        \* that starts with a date and a line that does not start with
        \* whitespace; else what stands before the first gap, or without a
        \* gap the account alone
        OfLine(line, trimmed) ==
            IF \/ trimmed = "" \/ StartsWith(trimmed, ";")
               \/ Dated(trimmed)
               \/ ~IsSpace(Ch(line, 1))
            THEN {}
            ELSE IF Gaps(trimmed) # {}
            THEN {Trim(match) :
                    match \in {Prefix(trimmed, k - 1) :
                                  k \in {g \in Gaps(trimmed) :
                                            \A j \in Gaps(trimmed) : g <= j}}}
            ELSE {AccountOnly(trimmed)}
    IN  UNION {WithParents(name) :
                  name \in UNION {OfLine(l[1], l[2]) :
                                     l \in {<<lines[i], Trim(lines[i])>> :
                                               i \in 1..Len(lines)}}}

\* extractIncludedFiles: the paths of the lines that match
\* /^!?include\s+(.+)$/, in the order of the lines
RECURSIVE extractIncludedFiles(_)
extractIncludedFiles(lines) ==
    LET \* a trimmed line without its '!', and where its path starts
        Directives(line) ==
            {<<d, Len("include") + SpaceRun(d, Len("include"))>> :
                d \in {IF StartsWith(t, "!") THEN Slice(t, 1) ELSE t : t \in {Trim(line)}}}
        Paths(line) ==
            {Trim(Slice(d[1], d[2])) :
                d \in {e \in Directives(line) :
                          /\ StartsWith(e[1], "include")
                          /\ e[2] > Len("include")
                          /\ e[2] < Len(e[1])}}
    IN  IF lines = <<>> THEN <<>>
        ELSE (IF Paths(Head(lines)) = {} THEN <<>>
              ELSE <<CHOOSE path \in Paths(Head(lines)) : TRUE>>)
                \o extractIncludedFiles(Tail(lines))

\* a processJournalFile that passes over no path
SkipNone(pending, visitedFiles) == pending

\* the paths still to process, without the leading ones processJournalFile
\* returns for at once: if (visitedFiles.has(filePath)) return
RECURSIVE SkipVisited(_, _)
SkipVisited(pending, visitedFiles) ==
    IF pending # <<>> /\ Head(pending) \in visitedFiles
    THEN SkipVisited(Tail(pending), visitedFiles)
    ELSE pending

\* provideCompletionItems after the await: the standard accounts in the
\* configured casing, then the accounts of the cache that are no standard
\* account in any casing
CompletionItems(cache, defaultCategoriesConfig) ==
    LET standardAccountsBase ==
            {"assets", "liabilities", "equity", "revenues", "income", "expenses"}
        \* toLowerCase over the letters the inputs use
        RECURSIVE LowerCaseFrom(_, _)
        LowerCaseFrom(s, k) ==
            IF k > Len(s) THEN ""
            ELSE (IF Ch(s, k) = "A" THEN "a" ELSE Ch(s, k)) \o LowerCaseFrom(s, k + 1)
        ToLowerCase(s) == LowerCaseFrom(s, 1)
        standardAccounts ==
            CASE defaultCategoriesConfig = "none" -> {}
              [] defaultCategoriesConfig = "lowercase" ->
                    {ToLowerCase(a) : a \in standardAccountsBase}
              [] OTHER -> standardAccountsBase
        \* the standard accounts and standardAccountsLowercase
        tracked == {<<st, {ToLowerCase(b) : b \in st}>> : st \in {standardAccounts}}
    IN  CHOOSE items \in {[standard |-> t[1],
                           existing |-> {a \in cache : ToLowerCase(a) \notin t[2]}] :
                              t \in tracked} : TRUE

\* a request that is not running, and the result for a line that is no
\* posting line
NoRequest ==
    [pc |-> "idle", linePrefix |-> "", config |-> "", visitedFiles |-> {},
     pending |-> <<>>, opened |-> <<>>, items |-> [standard |-> {}, existing |-> {}]]

\* updateAccountCache from the end of an await: the files that were visited
\* are passed over; the request awaits the next openTextDocument, or, with
\* no file left, updateAccountCache returns and provideCompletionItems
\* builds its items from the cache
Continue(request, pending, cache) ==
    IF pending = <<>>
    THEN [request EXCEPT !.pc = "done",
                         !.pending = <<>>,
                         !.items = CompletionItems(cache, request.config)]
    ELSE [request EXCEPT !.pc = "open",
                         !.pending = pending,
                         !.visitedFiles = request.visitedFiles \cup {Head(pending)},
                         !.opened = request.opened \o <<Head(pending)>>]

(***************************************************************************)
(* The engine as a state machine: an operation is applied to a text.       *)
(***************************************************************************)
\* every text of 1..n lines taken from the given lines
TextsOf(lines, n) == UNION {[1..k -> lines] : k \in 1..n}

\* no command-line flag, no environment variable, no config file
NoSources == [cli |-> NoOptions, env |-> NoOptions, config |-> [kind |-> "none"]]

Idle ==
    /\ op = "idle"
    /\ options = NoOptions
    /\ range = <<0, 0>>
    /\ result = <<>>
    /\ account = ""
    /\ context = NoContext
    /\ suggestion = NoSuggestion
    /\ amountText = ""
    /\ amountValue = NoAmount
    /\ sources = NoSources
    /\ used = NoOptions
    /\ files = <<>>
    /\ accountCache = {}
    /\ lastCacheUpdate = 0
    /\ requests = <<>>

Format(o) ==
    /\ op = "idle"
    /\ op' = "format"
    /\ options' = o
    /\ result' = formatHledgerJournal(text, o)
    /\ UNCHANGED <<text, range, account, context, suggestion, amountText, amountValue,
                   sources, used,
                   provider>>

Sort ==
    /\ op = "idle"
    /\ op' = "sort"
    /\ result' = sortHledgerJournal(text)
    /\ UNCHANGED <<text, options, range, account, context, suggestion, amountText,
                   amountValue, sources, used,
                   provider>>

Toggle(startLine, endLine, o) ==
    /\ op = "idle"
    /\ op' = "toggle"
    /\ options' = o
    /\ range' = <<startLine, endLine>>
    /\ result' = toggleCommentLines(text, startLine, endLine, o)
    /\ UNCHANGED <<text, account, context, suggestion, amountText, amountValue,
                   sources, used,
                   provider>>

\* text holds transaction.lines; o enumerates the FormatterOptions values
Balance(o, acct, ctx) ==
    /\ op = "idle"
    /\ op' = "balance"
    /\ options' = o
    /\ account' = acct
    /\ context' = ctx
    /\ suggestion' =
            calculateBalancingAmount(text, normalizeFormatterOptions(o), acct, ctx)
    /\ UNCHANGED <<text, range, result, amountText, amountValue, sources, used,
                   provider>>

\* normalizeFormatterOptions applied to an options argument
Normalize ==
    /\ op = "idle"
    /\ op' = "normalize"
    /\ used' = normalizeFormatterOptions(options)
    /\ UNCHANGED <<text, options, range, result, account, context, suggestion, amountText,
                   amountValue, sources,
                   provider>>

\* the format command: the options are resolved from the sources and the
\* input is formatted with them; used: the options formatHledgerJournal
\* works with
CliFormat ==
    /\ op = "idle"
    /\ op' = "cli"
    /\ options' = resolveFormatterOptions(sources)
    /\ used' = normalizeFormatterOptions(resolveFormatterOptions(sources))
    /\ result' = formatHledgerJournal(text, resolveFormatterOptions(sources))
    /\ UNCHANGED <<text, range, account, context, suggestion, amountText, amountValue,
                   sources,
                   provider>>

\* parseAmount applied to an amount text
ParseAmount ==
    /\ op = "idle"
    /\ op' = "parse"
    /\ amountValue' = parseAmount(amountText)
    /\ UNCHANGED <<text, options, range, result, account, context, suggestion, amountText,
                   sources, used,
                   provider>>

\* provideCompletionItems up to its first await.  The line is no posting
\* line: the result is empty.  The cache is fresh: updateAccountCache
\* returns at once and the items are built.  Otherwise the cache is cleared
\* and the request awaits findFiles.
ProvideCompletionItems(r, linePrefix, config, now) ==
    /\ requests[r].pc = "idle"
    /\ now >= lastCacheUpdate
    /\ IF ~IsSpace(Ch(linePrefix, 1))
       THEN /\ requests' = [requests EXCEPT ![r] =
                                [@ EXCEPT !.pc = "done", !.linePrefix = linePrefix,
                                          !.config = config]]
            /\ UNCHANGED <<accountCache, lastCacheUpdate>>
       ELSE IF now - lastCacheUpdate < cacheExpiryMs
       THEN /\ requests' = [requests EXCEPT ![r] =
                                Continue([@ EXCEPT !.linePrefix = linePrefix,
                                                   !.config = config],
                                         <<>>, accountCache)]
            /\ UNCHANGED <<accountCache, lastCacheUpdate>>
       ELSE /\ accountCache' = {}
            /\ lastCacheUpdate' = now
            /\ requests' = [requests EXCEPT ![r] =
                                [@ EXCEPT !.pc = "find", !.linePrefix = linePrefix,
                                          !.config = config]]
    /\ UNCHANGED <<files, engine>>

\* findFiles returns the journal files of the workspace in some order:
\* visitedFiles is created and the loop over the files starts
FindFilesDone(r, journalFiles) ==
    /\ requests[r].pc = "find"
    /\ requests' = [requests EXCEPT ![r] = Continue(@, journalFiles, accountCache)]
    /\ UNCHANGED <<files, accountCache, lastCacheUpdate, engine>>

\* openTextDocument returns the document of the first pending path, or
\* fails when there is no such file: processJournalFile adds the accounts
\* of the document to the cache and goes on with the included files, then
\* with the paths that were pending; a failure is caught and adds nothing
OpenTextDocumentDone(r) ==
    /\ requests[r].pc = "open"
    /\ \E path \in {Head(requests[r].pending)} :
        \E accounts \in {IF path \in DOMAIN files
                          THEN extractAccountsFromDocument(files[path]) ELSE {}},
           includedFiles \in {IF path \in DOMAIN files
                               THEN extractIncludedFiles(files[path]) ELSE <<>>} :
            \E pending \in {SkipVisited(includedFiles \o Tail(requests[r].pending),
                                        requests[r].visitedFiles)} :
                /\ accountCache' = accountCache \cup accounts
                /\ requests' = [requests EXCEPT ![r] = Continue(@, pending, accountCache')]
    /\ UNCHANGED <<files, lastCacheUpdate, engine>>

(***************************************************************************)
(* Formatting: the inputs                                                  *)
(***************************************************************************)
MaxFormatLines == 3

\* headers (normal, and indented with an unpadded date, a code and a
\* comment), postings (two-space and single-space separated, with and
\* without amount), a comment, blank lines, and a line whose date is invalid
FormatLines ==
    {"2023-01-05 * Shop",
     "  2023/1/5 (c)x ;n",
     "    a:b  $5.00",
     " assets:bank   -$85.50",
     "  exp 7",
     "  x:y",
     " ; note",
     "",
     "  ",
     " 2023/1/50"}

FormatOptions ==
    {NoOptions,
     [amountAlignment |-> Str("fixedColumn"), amountColumnPosition |-> Num(14),
      indentationWidth |-> Num(2), negativeCommodityStyle |-> Str("signBeforeSymbol"),
      dateFormat |-> Str("YYYY/MM/DD")],
     [amountAlignment |-> Str("widest"), indentationWidth |-> Num(0),
      negativeCommodityStyle |-> Str("signBeforeSymbol"), dateFormat |-> Str("YYYY.MM.DD")],
     [amountAlignment |-> Str("fixedColumn"), amountColumnPosition |-> Num(30)]}

InitFormat == text \in TextsOf(FormatLines, MaxFormatLines) /\ Idle

NextFormat == \E o \in FormatOptions : Format(o)

SpecFormat == InitFormat /\ [][NextFormat]_vars

\* the backward-compatible call: a column number as second argument
ColumnArguments == {Num(14), Num(30)}

NextColumn == \E n \in ColumnArguments : Format(n)

SpecColumn == InitFormat /\ [][NextColumn]_vars

(***************************************************************************)
(* Sorting: the inputs                                                     *)
(***************************************************************************)
MaxSortLines == 4

\* three headers (two of one day, written with different separators; an
\* earlier one with an unpadded month), a posting, a blank line, a comment
SortLines ==
    {"2023-10-01 b",
     "2023.10.01 c",
     "2023/2/15 a",
     "  p  $1",
     "",
     "; lead"}

InitSort == text \in TextsOf(SortLines, MaxSortLines) /\ Idle

NextSort == Sort

SpecSort == InitSort /\ [][NextSort]_vars

(***************************************************************************)
(* Lines with a date that is not one: the inputs                           *)
(***************************************************************************)
MaxDateLines == 3

\* a header, lines whose date has month 13, day 50 and two different
\* separators, a posting and an empty line
DateLines ==
    {"2023-01-05 * Shop",
     "2023-13-01 x",
     " 2023/1/50",
     "2023-1/5 y",
     "  a:b  $5.00",
     ""}

DateOptions == {NoOptions, [dateFormat |-> Str("YYYY/MM/DD"), indentationWidth |-> Num(2)]}

InitDates == text \in TextsOf(DateLines, MaxDateLines) /\ Idle

NextDates == Sort \/ \E o \in DateOptions : Format(o)

SpecDates == InitDates /\ [][NextDates]_vars

(***************************************************************************)
(* Postings without a readable amount: the inputs                          *)
(***************************************************************************)
MaxDetailLines == 4

\* a header, postings that hold an account only (one ending with a digit),
\* postings whose text after the gap is no amount (a gap of three spaces
\* and two spaces inside the text; a gap of two spaces), a posting with
\* an amount and an empty line
DetailLines ==
    {"2023-01-05 * Shop",
     "  x:y",
     "  a:b2",
     "  a:b   x  y",
     "  c:d  TBD",
     " assets:bank   -$85.50",
     ""}

DetailOptions ==
    {NoOptions,
     [amountAlignment |-> Str("fixedColumn"), amountColumnPosition |-> Num(14),
      indentationWidth |-> Num(2)]}

InitDetails == text \in TextsOf(DetailLines, MaxDetailLines) /\ Idle

NextDetails == \E o \in DetailOptions : Format(o)

SpecDetails == InitDetails /\ [][NextDetails]_vars

(***************************************************************************)
(* Comment blocks: the inputs                                              *)
(***************************************************************************)
MaxBlockLines == 4

\* the two lines that open and close a comment block, two headers (the
\* later date first in the set), a posting and an empty line
BlockLines ==
    {"comment",
     "end comment",
     "2023-10-01 b",
     "2023/2/15 a",
     "  p  $1",
     ""}

InitBlocks == text \in TextsOf(BlockLines, MaxBlockLines) /\ Idle

SpecSortBlocks == InitBlocks /\ [][NextSort]_vars

SpecFormatBlocks == InitBlocks /\ [][NextFormat]_vars

(***************************************************************************)
(* Comment toggling: the inputs                                            *)
(***************************************************************************)
MaxToggleLines == 3

\* plain and indented lines, comments (with one space, without a space, with
\* two spaces, without content), a blank line
ToggleLines == {"a", "  b  $1", "; c", "#e", ";  f", ";", ""}

ToggleOptions == {NoOptions, [commentCharacter |-> Str("#")]}

InitToggle == text \in TextsOf(ToggleLines, MaxToggleLines) /\ Idle

\* a zero-based range, which may end after the last line
NextToggle ==
    \E startLine \in 0..(MaxToggleLines - 1), endLine \in 0..MaxToggleLines,
       o \in ToggleOptions :
        Toggle(startLine, endLine, o)

SpecToggle == InitToggle /\ [][NextToggle]_vars

(***************************************************************************)
(* Balancing amounts: the inputs                                           *)
(***************************************************************************)
MaxPostings == 3

BalanceHeader == "2023-01-05 * Shop"

BalanceLines ==
    {"    a:b  $50.00",
     "    m:n  -$50.00",
     "    e:f",
     "    g:h  5 USD",
     "    i:j  $1,000,000",
     "    k:l  $-1.00"}

\* the values of the FormatterOptions argument
BalanceOptions ==
    {NoOptions,
     [amountAlignment |-> Str("fixedColumn"), amountColumnPosition |-> Num(20),
      negativeCommodityStyle |-> Str("signBeforeSymbol")]}

\* no context, as a direct call; the line and the cursor at its end, as the
\* inline completion provider passes them
BalanceContexts(line) ==
    {NoContext,
     [given |-> TRUE, currentLineText |-> line, hasCursor |-> TRUE,
      cursorColumn |-> Len(line)]}

InitBalance ==
    /\ text \in {<<BalanceHeader>> \o t : t \in TextsOf(BalanceLines, MaxPostings)}
    /\ Idle

\* the suggestion is asked for a line of the transaction that has an account
NextBalance ==
    \E o \in BalanceOptions, i \in 2..Len(text) :
        /\ extractPostingDetail(text[i]).account.some
        /\ \E ctx \in BalanceContexts(text[i]) :
                Balance(o, extractPostingDetail(text[i]).account.str, ctx)

SpecBalance == InitBalance /\ [][NextBalance]_vars

(***************************************************************************)
(* Balancing with lines that are no postings: the inputs                   *)
(***************************************************************************)
MaxNoteLines == 3

\* two postings that balance, a posting without amount, a comment, an empty
\* line, and metadata with and without a value
NoteLines ==
    {"    a:b  $50.00",
     "    m:n  -$50.00",
     "    e:f",
     " ; note",
     "",
     "    project: x1",
     "    note:"}

InitNotes ==
    /\ text \in {<<BalanceHeader>> \o t : t \in TextsOf(NoteLines, MaxNoteLines)}
    /\ Idle

\* the suggestion is asked for a line with an account, with that line and
\* the cursor at its end as context
NextNotes ==
    \E i \in 2..Len(text) :
        /\ extractPostingDetail(text[i]).account.some
        /\ Balance(NoOptions, extractPostingDetail(text[i]).account.str,
                   [given |-> TRUE, currentLineText |-> text[i], hasCursor |-> TRUE,
                    cursorColumn |-> Len(text[i])])

SpecNotes == InitNotes /\ [][NextNotes]_vars

(***************************************************************************)
(* Balancing at a cursor: the inputs                                       *)
(***************************************************************************)
MaxExisting == 2

MaxTrailing == 2

\* postings with amounts whose first digits stand in column 11, and one with
\* the digit in column 9
ExistingLines ==
    {"    a:bc  $50.00",
     "    a:b   $50.00",
     "    m:n  $-1.00",
     "    g:h  5 USD"}

CursorAccount == "e:f"

\* the current line: indentation, the account and spaces already typed
CursorLines == {"    " \o CursorAccount \o Repeat(" ", k) : k \in 0..MaxTrailing}

\* the transaction ends with the current line
InitCursor ==
    /\ text \in {<<BalanceHeader>> \o t \o <<l>> :
                    t \in TextsOf(ExistingLines, MaxExisting), l \in CursorLines}
    /\ Idle

\* no context, or the current line with the cursor anywhere from the end of
\* the account to the end of the line
CursorContexts(line) ==
    {NoContext}
        \union {[given |-> TRUE, currentLineText |-> line, hasCursor |-> TRUE,
                 cursorColumn |-> c] : c \in (4 + Len(CursorAccount))..Len(line)}

NextCursor ==
    \E o \in BalanceOptions, ctx \in CursorContexts(text[Len(text)]) :
        Balance(o, CursorAccount, ctx)

SpecCursor == InitCursor /\ [][NextCursor]_vars

(***************************************************************************)
(* Amount texts: the inputs                                                *)
(***************************************************************************)
\* digits with thousands commas and a decimal point, each optional
AmountNumbers == {"5", "50.25", "0.5", "1,000", "1,000.50", "1,000,000"}

AmountCurrencies == {"$", "USD", "\"US D\""}

\* [-]currency[space][-]number
CurrencyFirstTexts ==
    {s1 \o c \o sp \o s2 \o n :
        s1 \in {"", "-"}, c \in AmountCurrencies, sp \in {"", " "}, s2 \in {"", "-"},
        n \in AmountNumbers}

\* [-]number[[space]currency]
NumberFirstTexts ==
    {s1 \o n \o c : s1 \in {"", "-"}, n \in AmountNumbers,
                    c \in {""} \cup {sp \o x : sp \in {"", " "}, x \in AmountCurrencies}}

AmountTexts == CurrencyFirstTexts \cup NumberFirstTexts

InitAmount ==
    /\ amountText \in AmountTexts
    /\ amountValue = NoAmount
    /\ text = <<"">>
    /\ op = "idle"
    /\ options = NoOptions
    /\ range = <<0, 0>>
    /\ result = <<>>
    /\ account = ""
    /\ context = NoContext
    /\ suggestion = NoSuggestion
    /\ sources = NoSources
    /\ used = NoOptions
    /\ files = <<>>
    /\ accountCache = {}
    /\ lastCacheUpdate = 0
    /\ requests = <<>>

NextAmount == ParseAmount

SpecAmount == InitAmount /\ [][NextAmount]_vars

(***************************************************************************)
(* Options arguments: the inputs                                           *)
(***************************************************************************)
\* the values an options field is given: allowed ones, a string that is not
\* allowed, a value of the wrong type, undefined
OptionValues(f) ==
    IF f \in {"amountColumnPosition", "indentationWidth"}
    THEN {Num(7), Str("12"), Undefined}
    ELSE IF f = "amountAlignment"
    THEN {Str("widest"), Str("fixedColumn"), Str("center"), Num(1), Undefined}
    ELSE IF f = "negativeCommodityStyle"
    THEN {Str("symbolBeforeSign"), Str("signBeforeSymbol"), Str("none"), Undefined}
    ELSE IF f = "dateFormat"
    THEN {Str("YYYY-MM-DD"), Str("YYYY/MM/DD"), Str("YYYY.MM.DD"), Str("DD.MM.YYYY"), Num(0)}
    ELSE {Str(";"), Str("#"), Str("*"), Str("%"), Undefined}

MaxOptionFields == 2

\* no argument, a column number, and the objects with up to MaxOptionFields
\* fields
OptionArguments ==
    {NoOptions, Num(30)}
        \cup UNION {[fs -> UNION {OptionValues(f) : f \in fs}] :
                        fs \in {x \in SUBSET OptionFields :
                                    Cardinality(x) \in 1..MaxOptionFields}}

InitOptions ==
    /\ options \in {o \in OptionArguments :
                        "type" \in DOMAIN o \/ \A f \in DOMAIN o : o[f] \in OptionValues(f)}
    /\ text = <<"">>
    /\ op = "idle"
    /\ range = <<0, 0>>
    /\ result = <<>>
    /\ account = ""
    /\ context = NoContext
    /\ suggestion = NoSuggestion
    /\ amountText = ""
    /\ amountValue = NoAmount
    /\ sources = NoSources
    /\ used = NoOptions
    /\ files = <<>>
    /\ accountCache = {}
    /\ lastCacheUpdate = 0
    /\ requests = <<>>

NextOptions == Normalize

SpecOptions == InitOptions /\ [][NextOptions]_vars

(***************************************************************************)
(* The format command: the inputs                                          *)
(***************************************************************************)
\* flags: none, valid ones, and values that are ignored with a warning
CliArguments ==
    {NoOptions,
     [alignment |-> Str("fixedColumn")],
     [dateFormat |-> Str("YYYY-MM-DD"), column |-> Str("30"), commentChar |-> Str("*")],
     [alignment |-> Str("center"), indent |-> Str("x2")]}

Environments ==
    {NoOptions,
     [HLEDGER_FMT_DATE_FORMAT |-> Str("YYYY/MM/DD")],
     [HLEDGER_FMT_ALIGNMENT |-> Str("widest"),
      HLEDGER_FMT_NEGATIVE_STYLE |-> Str("signBeforeSymbol"),
      HLEDGER_FMT_INDENT |-> Str("2")],
     [HLEDGER_FMT_COLUMN |-> Str("-3"), HLEDGER_FMT_COMMENT_CHAR |-> Str("%")]}

\* the format objects of valid config files: empty, some options, all
ConfigFormats ==
    {NoOptions,
     [dateFormat |-> Str("YYYY.MM.DD")],
     [column |-> Num(20), indent |-> Num(2)],
     [alignment |-> Str("fixedColumn"), column |-> Num(24), indent |-> Num(0),
      negativeStyle |-> Str("signBeforeSymbol"), dateFormat |-> Str("YYYY/MM/DD"),
      commentChar |-> Str("#")]}

\* no file, a missing file, a file that does not parse, the valid files with
\* and without a format object, and files that are ignored
ConfigFiles ==
    {[kind |-> "none"], [kind |-> "missing"], [kind |-> "unparsable"],
     [kind |-> "json", root |-> NoOptions],
     [kind |-> "json", root |-> Str("widest")],
     [kind |-> "json", root |-> [format |-> Str("widest")]],
     [kind |-> "json", root |-> [format |-> [alignment |-> Str("center")]]],
     [kind |-> "json", root |-> [format |-> [column |-> Str("20")]]],
     [kind |-> "json", root |-> [format |-> [width |-> Num(2)]]],
     [kind |-> "json", root |-> [sort |-> NoOptions]]}
        \cup {[kind |-> "json", root |-> [format |-> f]] : f \in ConfigFormats}

CliJournal == <<"2023/1/5 x", " a:b  $-5.00", " c  7">>

InitCli ==
    /\ sources \in [cli : CliArguments, env : Environments, config : ConfigFiles]
    /\ text = CliJournal
    /\ op = "idle"
    /\ options = NoOptions
    /\ range = <<0, 0>>
    /\ result = <<>>
    /\ account = ""
    /\ context = NoContext
    /\ suggestion = NoSuggestion
    /\ amountText = ""
    /\ amountValue = NoAmount
    /\ used = NoOptions
    /\ files = <<>>
    /\ accountCache = {}
    /\ lastCacheUpdate = 0
    /\ requests = <<>>

NextCli == CliFormat

SpecCli == InitCli /\ [][NextCli]_vars

(***************************************************************************)
(* Account completion: the inputs                                          *)
(***************************************************************************)
MaxRequests == 2

MaxClock == 4

MaxRefreshes == 1

Requests == 1..MaxRequests

\* Date.now() at the requests: from the first expiry interval on, in steps
\* of half an interval
Times == {k * (cacheExpiryMs \div 2) : k \in 2..MaxClock}

\* workspaces: two files that include each other, one of them also itself;
\* a file that includes itself, a file that is no journal file and a file
\* that does not exist;
\* two files that include the same file
Workspaces ==
    {("a.journal" :> <<"include b.journal", "include a.journal", "  x:y  $1">>)
        @@ ("b.journal" :> <<"!include a.journal", " Assets:cash">>),
     ("a.journal" :> <<"include a.journal", "  x:y  $1", "include c.dat",
                       "include m.journal">>)
        @@ ("c.dat" :> <<" e:f 2  $2">>),
     ("a.journal" :> <<"2023-01-05 * Shop", "include  c.dat">>)
        @@ ("b.ledger" :> <<"!include c.dat", " ; note", " p:q\t1">>)
        @@ ("c.dat" :> <<" r  1">>)}

\* '**/*.{journal,hledger,ledger}': the journal files of a workspace, in
\* every order
JournalFilesOf(workspace) ==
    LET found == {path \in DOMAIN workspace :
                     \E e \in {".journal", ".hledger", ".ledger"} :
                         /\ Len(path) > Len(e)
                         /\ Slice(path, Len(path) - Len(e)) = e}
    IN  {order \in [1..Cardinality(found) -> found] :
            \A i, j \in 1..Cardinality(found) : order[i] = order[j] => i = j}

\* the lines before the cursor, of a posting line and of another line, and
\* the settings of defaultAccountCategories
LinePrefixes == {"  a", "a"}

CategorySettings == {"lowercase", "none"}

InitCache ==
    /\ files \in Workspaces
    /\ accountCache = {}
    /\ lastCacheUpdate = 0
    /\ requests = [r \in Requests |-> NoRequest]
    /\ text = <<"">>
    /\ op = "idle"
    /\ options = NoOptions
    /\ range = <<0, 0>>
    /\ result = <<>>
    /\ account = ""
    /\ context = NoContext
    /\ suggestion = NoSuggestion
    /\ amountText = ""
    /\ amountValue = NoAmount
    /\ sources = NoSources
    /\ used = NoOptions

\* the workspaces with the requests whose refreshes are followed to their end
InitRefresh ==
    /\ files \in Workspaces
    /\ accountCache = {}
    /\ lastCacheUpdate = 0
    /\ requests = [r \in 1..MaxRefreshes |-> NoRequest]
    /\ text = <<"">>
    /\ op = "idle"
    /\ options = NoOptions
    /\ range = <<0, 0>>
    /\ result = <<>>
    /\ account = ""
    /\ context = NoContext
    /\ suggestion = NoSuggestion
    /\ amountText = ""
    /\ amountValue = NoAmount
    /\ sources = NoSources
    /\ used = NoOptions

\* the steps of request r after its start
Resume(r) ==
    \/ \E journalFiles \in JournalFilesOf(files) : FindFilesDone(r, journalFiles)
    \/ OpenTextDocumentDone(r)

NextCache ==
    \E r \in DOMAIN requests :
        \/ \E linePrefix \in LinePrefixes, config \in CategorySettings, now \in Times :
                ProvideCompletionItems(r, linePrefix, config, now)
        \/ Resume(r)

SpecCache == InitCache /\ [][NextCache]_vars

\* an await of findFiles or openTextDocument ends
SpecRefresh ==
    InitRefresh /\ [][NextCache]_vars /\ \A r \in 1..MaxRefreshes : WF_vars(Resume(r))

(***************************************************************************)
(* Properties of the formatter                                             *)
(***************************************************************************)
NormalizedOptions == normalizeFormatterOptions(options)

\* C1: formatHledgerJournal is idempotent: formatting its own output again
\* with the same options returns that output, character for character.
FormatIdempotent ==
    op = "format" => formatHledgerJournal(result, options) = result

\* a posting line with an account and an amount that has a digit
HasAmountDigit(detail) ==
    detail.account.some /\ detail.amount.some /\ FirstDigitFrom(detail.amount.str, 0) # -1

IsAmountPosting(line) ==
    /\ Trim(line) # ""
    /\ ~isCommentLine(line)
    /\ ~isTransactionHeaderLine(line)
    /\ HasAmountDigit(extractPostingDetail(line))

PostingAmount(line) == extractPostingDetail(line).amount.str

\* the 0-based column of the first digit of the amount that ends the line
AmountDigitColumn(line, amount) ==
    Len(TrimEnd(line)) - Len(amount) + FirstDigitFrom(amount, 0)

FirstDigitColumn(line) == AmountDigitColumn(line, PostingAmount(line))

\* line j belongs to the transaction whose header is line h
SameTransaction(lines, h, j) ==
    /\ isTransactionHeaderLine(lines[h])
    /\ h < j
    /\ \A k \in (h + 1)..j : Trim(lines[k]) # "" /\ ~isTransactionHeaderLine(lines[k])

\* two postings with amounts in the transaction of header h
TwoAmountPostings(lines, h, i, j) ==
    /\ SameTransaction(lines, h, i) /\ IsAmountPosting(lines[i])
    /\ SameTransaction(lines, h, j) /\ IsAmountPosting(lines[j])

\* C4: after format with widest alignment, the posting lines of one
\* transaction that have an account and an amount have the first digit of
\* their amounts in the same column.
WidestAlignsFirstDigits ==
    op = "format" /\ NormalizedOptions.amountAlignment = "widest" =>
        \A h, i, j \in 1..Len(result) :
            TwoAmountPostings(result, h, i, j) =>
                FirstDigitColumn(result[i]) = FirstDigitColumn(result[j])

\* a transaction whose amounts have their first digit at different offsets
\* ($5.00 and 7) was reformatted with widest alignment
WidestAlignsFirstDigitsWitness ==
    /\ op = "format"
    /\ NormalizedOptions.amountAlignment = "widest"
    /\ result # text
    /\ \E h, i, j \in 1..Len(result) :
            /\ TwoAmountPostings(result, h, i, j)
            /\ FirstDigitFrom(PostingAmount(result[i]), 0)
                    # FirstDigitFrom(PostingAmount(result[j]), 0)

\* the header starts at column 0 with the zero-padded date in the given
\* style, which ends the line or is followed by one space
NormalHeaderDated(h, date) ==
    /\ StartsWith(h, date)
    /\ Len(h) = Len(date)
        \/ (Ch(h, Len(date) + 1) = " " /\ ~IsSpace(Ch(h, Len(date) + 2)))

NormalHeader(h, opts) ==
    NormalHeaderDated(h, formatDate(extractDateComponents(Trim(h)), opts.dateFormat))

\* C10: after format, the header of every transaction of the input starts at
\* column 0 and reads date [status] [code] [description] with single spaces,
\* the date zero-padded in the configured style, whatever follows the header.
HeadersNormalized ==
    op = "format" =>
        \A i \in 1..Len(text) :
            isTransactionHeaderLine(text[i]) =>
                \E j \in 1..Len(result) :
                    /\ result[j] = formatTransactionHeader(text[i], NormalizedOptions)
                    /\ NormalHeader(result[j], NormalizedOptions)

(***************************************************************************)
(* Properties of the sorter                                                *)
(***************************************************************************)
\* C2: sortHledgerJournal is idempotent: sorting its own output returns that
\* output, the blank lines between transactions and at the end included.
SortIdempotent ==
    op = "sort" => sortHledgerJournal(result) = result

HeaderIndices(lines) == {i \in 1..Len(lines) : isTransactionHeaderLine(lines[i])}

\* the calendar value of a date
CalendarValue(components) ==
    components.year * 10000 + components.month * 100 + components.day

DateValue(line) == CalendarValue(extractDateComponents(Trim(line)))

\* the non-blank lines from index i up to the next header
RECURSIVE BlockFrom(_, _)
BlockFrom(lines, i) ==
    IF i > Len(lines) THEN <<>>
    ELSE IF isTransactionHeaderLine(lines[i]) THEN <<>>
    ELSE (IF Trim(lines[i]) = "" THEN <<>> ELSE <<lines[i]>>) \o BlockFrom(lines, i + 1)

\* the transaction whose header is line i: its non-blank lines
TransactionAt(lines, i) == <<lines[i]>> \o BlockFrom(lines, i + 1)

\* the transactions dated d from index i on, in order
RECURSIVE TransactionsDated(_, _, _)
TransactionsDated(lines, i, d) ==
    IF i > Len(lines) THEN <<>>
    ELSE (IF isTransactionHeaderLine(lines[i]) /\ DateValue(lines[i]) = d
          THEN <<TransactionAt(lines, i)>> ELSE <<>>)
            \o TransactionsDated(lines, i + 1, d)

\* C7: sortHledgerJournal orders the transactions by the calendar value of
\* their header dates, whatever separator or padding a date uses, and the
\* transactions of one date keep their input order.
SortedByCalendarDate ==
    op = "sort" =>
        /\ \A i, j \in HeaderIndices(result) :
                i < j => DateValue(result[i]) <= DateValue(result[j])
        /\ \A i \in HeaderIndices(text) :
                TransactionsDated(result, 1, DateValue(text[i]))
                    = TransactionsDated(text, 1, DateValue(text[i]))

\* three transactions, two of one date written with different separators
\* before one of an earlier date, were put in order
SortedByCalendarDateWitness ==
    /\ op = "sort"
    /\ result # text
    /\ \E i, j, k \in HeaderIndices(text) :
            /\ i < j /\ j < k
            /\ DateValue(text[i]) = DateValue(text[j])
            /\ text[i] # text[j]
            /\ DateValue(text[k]) < DateValue(text[i])

\* the transactions equal to t
Occurrences(lines, t) ==
    Cardinality({i \in HeaderIndices(lines) : TransactionAt(lines, i) = t})

\* C8: sortHledgerJournal only moves whole transactions: the leading content
\* stays first and the output's transactions are the input's, each with its
\* lines unchanged, contiguous and in order, each as often as in the input.
SortMovesWholeTransactions ==
    op = "sort" =>
        /\ BlockFrom(result, 1) = BlockFrom(text, 1)
        /\ Cardinality(HeaderIndices(result)) = Cardinality(HeaderIndices(text))
        /\ \A i \in HeaderIndices(text) :
                Occurrences(result, TransactionAt(text, i))
                    = Occurrences(text, TransactionAt(text, i))

\* leading content, then a transaction with a posting before a transaction
\* of an earlier date: the two were exchanged
SortMovesWholeTransactionsWitness ==
    /\ op = "sort"
    /\ BlockFrom(text, 1) # <<>>
    /\ \E i, j \in HeaderIndices(text) :
            /\ i < j
            /\ DateValue(text[j]) < DateValue(text[i])
            /\ Len(TransactionAt(text, i)) > 1
    /\ result # text

\* a blank line ends the text after the last transaction
BlankAfterLast(lines) ==
    /\ Len(lines) >= 2
    /\ Trim(lines[Len(lines)]) = ""
    /\ Trim(lines[Len(lines) - 1]) = ""

\* C9: the output of sortHledgerJournal has exactly one blank line between
\* two consecutive transactions and no blank line after the last one.
OneBlankLineBetween ==
    op = "sort" /\ HeaderIndices(result) # {} =>
        /\ \A i, j \in HeaderIndices(result) :
                i < j => /\ Trim(result[j - 1]) = ""
                         /\ Trim(result[j - 2]) # ""
        /\ ~BlankAfterLast(result)

(***************************************************************************)
(* Properties of the comment toggler                                       *)
(***************************************************************************)
\* line n is in a comment block: after a `comment` line that no
\* `end comment` line closes before it
InCommentBlock(lines, n) ==
    \E k \in 1..n :
        /\ isCommentBlockStart(lines[k])
        /\ \A m \in (k + 1)..n : ~isCommentBlockEnd(lines[m])

OutsideCommentBlocks(lines, visited) ==
    \A n \in visited : ~InCommentBlock(lines, n)

ToggledTwice ==
    toggleCommentLines(result, range[1], range[2], options)

\* the original statement of C3: toggleCommentLines is its own inverse for
\* every range outside comment blocks, whatever lines the range selects
ToggleIsOwnInverse ==
    op = "toggle" /\ OutsideCommentBlocks(text, ToggleRange(text, range[1], range[2])) =>
        ToggledTwice = text

NonBlankIn(lines, visited) == {n \in visited : Trim(lines[n]) # ""}

\* indentation, the character c, one space, then content that starts with
\* neither whitespace nor a comment character
CanonicalCommentAt(line, lead, c) ==
    /\ Ch(line, lead + 1) = c
    /\ Ch(line, lead + 2) = " "
    /\ Len(line) >= lead + 3
    /\ ~IsSpace(Ch(line, lead + 3))
    /\ ~(Ch(line, lead + 3) \in CommentCharacters)

CanonicalComment(line, c) == CanonicalCommentAt(line, LeadingSpaces(line, 0), c)

StartsAsComment(line) == Ch(line, LeadingSpaces(line, 0) + 1) \in CommentCharacters

\* the selection is uniform: no selected non-blank line is a comment, or
\* each is a comment as the toggler writes it with the configured character
UniformSelection(lines, visited, c) ==
    \/ \A n \in NonBlankIn(lines, visited) : ~StartsAsComment(lines[n])
    \/ \A n \in NonBlankIn(lines, visited) : CanonicalComment(lines[n], c)

\* C3: toggling the same range twice restores the text when the non-blank
\* lines of the range are all uncommented, or are all comments written as
\* indentation, the configured comment character, one space and content.
ToggleRoundTrip ==
    op = "toggle"
        /\ OutsideCommentBlocks(text, ToggleRange(text, range[1], range[2]))
        /\ UniformSelection(text, ToggleRange(text, range[1], range[2]),
                            NormalizedOptions.commentCharacter) =>
            ToggledTwice = text

\* two or more comments in the toggler's form, with a blank line in the
\* range, were uncommented
ToggleRoundTripWitness ==
    /\ op = "toggle"
    /\ result # text
    /\ UniformSelection(text, ToggleRange(text, range[1], range[2]),
                        NormalizedOptions.commentCharacter)
    /\ Cardinality(NonBlankIn(text, ToggleRange(text, range[1], range[2]))) >= 2
    /\ \E n \in ToggleRange(text, range[1], range[2]) : text[n] = ""
    /\ \E n \in ToggleRange(text, range[1], range[2]) : StartsAsComment(text[n])

(***************************************************************************)
(* Properties of the balancing amount                                      *)
(***************************************************************************)
\* the amount read with its commas as thousands separators
TrueAmount(amountStr) == parseAmount(RemoveCommas(amountStr))

\* the sum of the amounts the postings have
RECURSIVE TrueSum(_)
TrueSum(postings) ==
    IF postings = <<>> THEN 0
    ELSE (IF Head(postings).hasAmount
          THEN TrueAmount(PostingAmount(Head(postings).line)).value ELSE 0)
            + TrueSum(Tail(postings))

\* exactly one posting lacks an amount, the others have one currency and a
\* sum that is not zero
Balanceable(postings) ==
    /\ Cardinality({i \in 1..Len(postings) : ~postings[i].hasAmount}) = 1
    /\ Cardinality(CurrenciesOf(postings)) = 1
    /\ TrueSum(postings) # 0

\* the amount text denotes -sum in the currency, the sign placed per style
StyledNegation(amountStr, sum, currency, style) ==
    /\ TrueAmount(amountStr).ok
    /\ TrueAmount(amountStr).value = -sum
    /\ TrueAmount(amountStr).currency = currency
    /\ sum > 0 =>
            IF style = "signBeforeSymbol"
            THEN StartsWith(amountStr, "-" \o currency)
            ELSE StartsWith(amountStr, currency \o "-")

\* C5: when exactly one posting lacks an amount and the others have one
\* currency and a non-zero sum, the returned amount is the negation of that
\* sum in that currency and in the configured negative-commodity style.
BalancingAmountNegatesSum ==
    op = "balance" /\ Balanceable(ParsePostings(text)) =>
        /\ ~suggestion.isNull
        /\ StyledNegation(Trim(suggestion.str), TrueSum(ParsePostings(text)),
                          CHOOSE c \in CurrenciesOf(ParsePostings(text)) : TRUE,
                          NormalizedOptions.negativeCommodityStyle)

\* C6: calculateBalancingAmount returns null exactly when the postings
\* lacking an amount are not one, the amounts do not share one currency, or
\* the amounts sum to zero.
NullExactlyWhenNotBalanceable ==
    op = "balance" => (suggestion.isNull <=> ~Balanceable(ParsePostings(text)))

(***************************************************************************)
(* Blank lines and transaction structure in the formatter's output         *)
(***************************************************************************)
\* the last line of the transaction whose header is line k or before it: the
\* lines that follow up to a blank line, a header or a `comment` line
RECURSIVE TransactionEnd(_, _)
TransactionEnd(lines, k) ==
    IF k + 1 > Len(lines) THEN k
    ELSE IF Trim(lines[k + 1]) = "" \/ isTransactionHeaderLine(lines[k + 1])
            \/ isCommentBlockStart(lines[k + 1])
    THEN k
    ELSE TransactionEnd(lines, k + 1)

\* the lines of the transaction whose header is line h
TransactionLines(lines, h) == SubSeq(lines, h, TransactionEnd(lines, h))

\* h and j are headers of transactions outside comment blocks, and only
\* blank lines, or none, stand between the end of the first and j
NeighbourTransactions(lines, h, j) ==
    /\ isTransactionHeaderLine(lines[h]) /\ ~InCommentBlock(lines, h)
    /\ isTransactionHeaderLine(lines[j])
    /\ TransactionEnd(lines, h) < j
    /\ \A k \in (TransactionEnd(lines, h) + 1)..(j - 1) : Trim(lines[k]) = ""

\* the piece occurs in the lines, contiguous
OccursIn(lines, piece) ==
    \E a \in 0..(Len(lines) - Len(piece)) :
        SubSeq(lines, a + 1, a + Len(piece)) = piece

\* the first transaction as formatted, one empty line, the other's header
SeparatedOnce(lines, h, j, opts) ==
    formatTransaction(TransactionLines(lines, h), opts) \o <<"">>
        \o <<Head(formatTransaction(TransactionLines(lines, j), opts))>>

\* the output is the empty text
EmptyOutput(lines) == lines = <<"">>

\* C11: the output of format never begins with a blank line, and two
\* transactions that are adjacent in the input or separated only by blank
\* lines are separated by exactly one empty line in the output.
OneEmptyLineBetweenTransactions ==
    op = "format" =>
        /\ EmptyOutput(result) \/ Trim(result[1]) # ""
        /\ \A h, j \in 1..Len(text) :
                NeighbourTransactions(text, h, j) =>
                    OccursIn(result, SeparatedOnce(text, h, j, NormalizedOptions))

\* the input begins with a blank line, and a transaction with a posting is
\* followed by another, directly or after a whitespace-only line
OneEmptyLineBetweenTransactionsWitness ==
    /\ op = "format"
    /\ Trim(text[1]) = ""
    /\ \E h, j \in 1..Len(text) : NeighbourTransactions(text, h, j)
    /\ Trim(result[1]) # ""

(***************************************************************************)
(* The one action of the comment toggler                                   *)
(***************************************************************************)
\* the line with the comment character and one space after its indentation
WithMarker(line, lead, c) == Prefix(line, lead) \o c \o " " \o Slice(line, lead)

\* the line without its comment marker and the one space that follows it
WithoutMarker(line, lead) ==
    Prefix(line, lead) \o Slice(line, IF Ch(line, lead + 2) = " " THEN lead + 2 ELSE lead + 1)

\* what the claim requires of a non-blank line of the range
ToggleExpected(line, commenting, c) ==
    IF commenting
    THEN IF StartsAsComment(line) THEN line
         ELSE WithMarker(line, LeadingSpaces(line, 0), c)
    ELSE WithoutMarker(line, LeadingSpaces(line, 0))

\* some non-blank line of the range is not a comment line
AnyUncommented(lines, visited) ==
    \E n \in NonBlankIn(lines, visited) : ~StartsAsComment(lines[n])

\* C12: toggleCommentLines applies one action to the whole range: if a
\* non-blank line of the range is not a comment, every uncommented line gets
\* the configured character and one space after its indentation and the
\* comment lines stay as they are; otherwise every line loses its marker and
\* the one space after it.  Blank lines and lines outside the range stay.
ToggleAppliesOneAction ==
    op = "toggle" =>
        /\ Len(result) = Len(text)
        /\ \A n \in 1..Len(text) :
                result[n] =
                    IF n \in NonBlankIn(text, ToggleRange(text, range[1], range[2]))
                    THEN ToggleExpected(text[n],
                            AnyUncommented(text, ToggleRange(text, range[1], range[2])),
                            NormalizedOptions.commentCharacter)
                    ELSE text[n]

\* three lines were selected, exactly one of them a comment: the other two
\* were commented and the comment was left as it was
ToggleAppliesOneActionWitness ==
    /\ op = "toggle"
    /\ ToggleRange(text, range[1], range[2]) = {1, 2, 3}
    /\ Cardinality({n \in 1..3 : StartsAsComment(text[n])}) = 1
    /\ Cardinality({n \in 1..3 : Trim(text[n]) # "" /\ ~StartsAsComment(text[n])}) = 2
    /\ \A n \in 1..3 : StartsAsComment(result[n])
    /\ \E n \in 1..3 : result[n] = text[n]

(***************************************************************************)
(* Properties of the amount parser                                         *)
(***************************************************************************)
\* a '-' stands before the currency or immediately before the digits: in an
\* amount text no other '-' comes before the first digit
MinusBeforeDigits(s) ==
    IndexOf(s, "-", 0) # -1 /\ IndexOf(s, "-", 0) < FirstDigitFrom(s, 0)

\* the digit string with its commas removed, decimal part included, in units
\* of 10^-Precision
ThousandsMagnitude(s) == ParseFloat(RemoveCommas(Slice(s, FirstDigitFrom(s, 0))))

\* C13: parseAmount returns, for every amount text of either grammar, the
\* value whose magnitude is the digit string with its commas read as thousands
\* separators and whose sign is negative exactly when a '-' stands before the
\* currency or immediately before the digits, also when both do.
ParseAmountReadsThousands ==
    op = "parse" =>
        /\ amountValue.ok
        /\ amountValue.value
                = Signed(ThousandsMagnitude(amountText), MinusBeforeDigits(amountText))

(***************************************************************************)
(* Properties of the option normalizer                                     *)
(***************************************************************************)
\* the value the argument supplies for the field: a column number supplies
\* amountColumnPosition only, an object the fields it has
Supplied(optionsOrColumn, f) ==
    IF "type" \in DOMAIN optionsOrColumn
    THEN IF f = "amountColumnPosition" THEN optionsOrColumn ELSE Undefined
    ELSE IF f \in DOMAIN optionsOrColumn THEN optionsOrColumn[f]
    ELSE Undefined

\* the value has the type of the field and is one of its allowed values
AllowedValue(f, x) ==
    IF f \in {"amountColumnPosition", "indentationWidth"} THEN x.type = "number"
    ELSE /\ x.type = "string"
         /\ x.v \in (IF f = "amountAlignment" THEN {"fixedColumn", "widest"}
                      ELSE IF f = "negativeCommodityStyle"
                      THEN {"signBeforeSymbol", "symbolBeforeSign"}
                      ELSE IF f = "dateFormat"
                      THEN {"YYYY-MM-DD", "YYYY/MM/DD", "YYYY.MM.DD"}
                      ELSE CommentCharacters)

\* C14: normalizeFormatterOptions returns all six fields, and every field
\* whose supplied value is missing, undefined, of the wrong type or not an
\* allowed value has that field's default.
InvalidOptionsGetDefaults ==
    op = "normalize" =>
        /\ DOMAIN used = OptionFields
        /\ \A f \in OptionFields :
                ~AllowedValue(f, Supplied(options, f)) =>
                    used[f] = DEFAULT_FORMATTER_OPTIONS[f]

(***************************************************************************)
(* Properties of the format command's options                              *)
(***************************************************************************)
\* the config file is absent or valid; its format object, if it has one
ConfigFormatOf(config) ==
    IF config.kind = "json" /\ config.root # NoOptions THEN config.root.format
    ELSE NoOptions

ConfigWellFormed(config) ==
    \/ config.kind = "none"
    \/ config.kind = "json" /\ config.root = NoOptions
    \/ config.kind = "json" /\ config.root \in {[format |-> f] : f \in ConfigFormats}

\* a flag or variable that is set holds a value of its field: digits for a
\* number, an allowed string otherwise
SettingWellFormed(f, value) ==
    \/ value = Undefined
    \/ IF OptionSource(f).number THEN value.v # "" /\ DigitRun(value.v, 0) = Len(value.v)
       ELSE AllowedValue(f, value)

SourcesWellFormed(src) ==
    /\ ConfigWellFormed(src.config)
    /\ \A f \in OptionFields :
            /\ SettingWellFormed(f, ValueAt(src.cli, OptionSource(f).key))
            /\ SettingWellFormed(f, ValueAt(src.env, OptionSource(f).env))

\* the option value a setting denotes
Denoted(f, value) ==
    IF value.type = "string" /\ OptionSource(f).number THEN ParseNat(value.v)
    ELSE value.v

\* the value of the highest-precedence source that sets the field
ByPrecedence(f, flag, variable, configured) ==
    IF flag # Undefined THEN Denoted(f, flag)
    ELSE IF variable # Undefined THEN Denoted(f, variable)
    ELSE IF configured # Undefined THEN Denoted(f, configured)
    ELSE DEFAULT_FORMATTER_OPTIONS[f]

\* C15: for each formatting option of the format command, the value the
\* formatter uses is that of the highest-precedence source that sets it (flag,
\* then environment variable, then config file), and the built-in default
\* when no source sets it, also for a config file that sets some options.
OptionsFollowPrecedence ==
    op = "cli" /\ SourcesWellFormed(sources) =>
        \A f \in OptionFields :
            used[f] = ByPrecedence(f, ValueAt(sources.cli, OptionSource(f).key),
                                   ValueAt(sources.env, OptionSource(f).env),
                                   ValueAt(ConfigFormatOf(sources.config),
                                           OptionSource(f).key))

(***************************************************************************)
(* Comment lines of a transaction                                          *)
(***************************************************************************)
\* the piece has a header first and then, line by line, the comment lines
\* of the transaction unchanged and a posting where the transaction has one
KeepsCommentPositions(piece, lines) ==
    /\ isTransactionHeaderLine(piece[1])
    /\ \A i \in 2..Len(lines) :
            IF isCommentLine(lines[i]) THEN piece[i] = lines[i]
            ELSE ~isCommentLine(piece[i])

\* C16: format keeps every comment line of a transaction unchanged and at
\* its position among the transaction's posting lines: the output holds,
\* for each transaction of the input, its lines in the input's order.
FormatKeepsCommentPositions ==
    op = "format" =>
        \A h \in 1..Len(text) :
            isTransactionHeaderLine(text[h]) /\ ~InCommentBlock(text, h) =>
                \E a \in 0..(Len(result) - Len(TransactionLines(text, h))) :
                    KeepsCommentPositions(
                        SubSeq(result, a + 1, a + Len(TransactionLines(text, h))),
                        TransactionLines(text, h))

(***************************************************************************)
(* The column number as second argument                                    *)
(***************************************************************************)
\* the options form that the number n stands for
FixedColumnForm(n) == [amountAlignment |-> Str("fixedColumn"), amountColumnPosition |-> n]

\* C17: formatHledgerJournal(text, n) with a number n formats as
\* formatHledgerJournal(text, {amountAlignment: 'fixedColumn',
\* amountColumnPosition: n}) does: amounts aligned at column n.
NumberIsFixedColumn ==
    op = "format" /\ "type" \in DOMAIN options =>
        result = formatHledgerJournal(text, FixedColumnForm(options))

(***************************************************************************)
(* The end of the formatted text                                           *)
(***************************************************************************)
\* C18: the output of format ends with at most one blank line, a blank
\* line being a line that is empty or holds only whitespace.
FormatEndsWithOneBlankLine == op = "format" => ~BlankAfterLast(result)

(***************************************************************************)
(* Comment blocks in the sorter and the formatter                          *)
(***************************************************************************)
\* line k opens a comment block: a `comment` line outside any open block
OpensCommentBlock(lines, k) ==
    /\ isCommentBlockStart(lines[k])
    /\ k = 1 \/ ~InCommentBlock(lines, k - 1)

\* the last line of the block that line k opens, looking from line n on:
\* the next `end comment` line, or the last line of the text
RECURSIVE CommentBlockEnd(_, _)
CommentBlockEnd(lines, n) ==
    IF n >= Len(lines) THEN Len(lines)
    ELSE IF isCommentBlockEnd(lines[n]) THEN n
    ELSE CommentBlockEnd(lines, n + 1)

CommentBlockAt(lines, k) == SubSeq(lines, k, CommentBlockEnd(lines, k + 1))

\* C19: sortHledgerJournal emits every comment block of the input verbatim,
\* contiguous and in order: no line between a `comment` line and its
\* `end comment` line starts a transaction that the sort moves.
SortKeepsCommentBlocks ==
    op = "sort" =>
        \A k \in 1..Len(text) :
            OpensCommentBlock(text, k) => OccursIn(result, CommentBlockAt(text, k))

\* the piece occurs in the lines directly after the lines of before
OccursAfter(lines, piece, before) ==
    \E a \in 0..(Len(lines) - Len(piece)) :
        /\ SubSeq(lines, a + 1, a + Len(piece)) = piece
        /\ a >= Len(before)
        /\ SubSeq(lines, a - Len(before) + 1, a) = before

\* the transaction of header h is open when the block of line k starts
OpenBefore(lines, h, k) ==
    /\ isTransactionHeaderLine(lines[h]) /\ ~InCommentBlock(lines, h)
    /\ TransactionEnd(lines, h) = k - 1

\* C20: format emits every comment block, up to its `end comment` line or
\* the end of the input, unchanged and in order, whatever its lines look
\* like, and directly after the formatted lines of the transaction that
\* was open when the block started.
FormatKeepsCommentBlocks ==
    op = "format" =>
        \A k \in 1..Len(text) :
            OpensCommentBlock(text, k) =>
                /\ OccursIn(result, CommentBlockAt(text, k))
                /\ \A h \in 1..(k - 1) :
                        OpenBefore(text, h, k) =>
                            OccursAfter(result, CommentBlockAt(text, k),
                                        formatTransaction(TransactionLines(text, h),
                                                          NormalizedOptions))

(***************************************************************************)
(* Lines with a date that is not one                                       *)
(***************************************************************************)
\* the digits of s from 0-based index i, two at most, as a number
TwoDigitsAt(s, i) == ParseNat(SubSeq(s, i + 1, i + Min(2, DigitRun(s, i))))

\* s begins with four digits, a separator, the one or two digits of a month,
\* a separator and a day, and the month is outside 1..12, the day outside
\* 1..31 or the two separators differ
InvalidDatePrefix(s, mlen) ==
    /\ DigitRun(s, 0) = 4
    /\ Ch(s, 5) \in {"-", "/", "."}
    /\ mlen \in {1, 2}
    /\ Ch(s, 6 + mlen) \in {"-", "/", "."}
    /\ DigitRun(s, 6 + mlen) >= 1
    /\ \/ Ch(s, 6 + mlen) # Ch(s, 5)
       \/ ~(TwoDigitsAt(s, 5) \in 1..12)
       \/ ~(TwoDigitsAt(s, 6 + mlen) \in 1..31)

InvalidDated(line) == InvalidDatePrefix(Trim(line), DigitRun(Trim(line), 5))

\* line i comes while the formatter has a transaction open
OpenAt(lines, i) ==
    \E h \in 1..(i - 1) :
        isTransactionHeaderLine(lines[h]) /\ TransactionEnd(lines, h) >= i - 1

\* line i is formatted as a line of the transaction of some header before it
PostingOfOpen(lines, i, out, opts) ==
    \E h \in 1..(i - 1) :
        /\ isTransactionHeaderLine(lines[h])
        /\ TransactionEnd(lines, h) >= i
        /\ OccursIn(out, formatTransaction(TransactionLines(lines, h), opts))

\* line i of the input is in the sorted text, directly after the line it
\* follows in the input when that line is not blank
KeptInPlace(lines, i, out) ==
    IF i > 1 /\ Trim(lines[i - 1]) # ""
    THEN OccursIn(out, <<lines[i - 1], lines[i]>>)
    ELSE OccursIn(out, <<lines[i]>>)

\* C21: a line whose leading date has a month outside 1..12, a day outside
\* 1..31 or two different separators never starts a transaction: format
\* handles it as a posting of the open transaction, or passes it through
\* unchanged outside a transaction, and sort leaves it where it is.
InvalidDatesStartNothing ==
    \A i \in 1..Len(text) :
        InvalidDated(text[i]) =>
            /\ ~isTransactionHeaderLine(text[i])
            /\ op = "format" =>
                    IF OpenAt(text, i)
                    THEN PostingOfOpen(text, i, result, NormalizedOptions)
                    ELSE OccursIn(result, <<text[i]>>)
            /\ op = "sort" => KeptInPlace(text, i, result)

\* format met one such line outside a transaction and another one inside
InvalidDatesStartNothingWitness ==
    /\ op = "format"
    /\ \E i, j \in 1..Len(text) :
            /\ InvalidDated(text[i]) /\ ~OpenAt(text, i)
            /\ InvalidDated(text[j]) /\ OpenAt(text, j)
    /\ result # text

(***************************************************************************)
(* Postings without an amount                                              *)
(***************************************************************************)
\* s is made of letters, digits, colons and single spaces
AccountNameOnly(s) ==
    /\ s # ""
    /\ \A n \in 1..Len(s) :
            \/ IsKeyChar(Ch(s, n)) /\ ~(Ch(s, n) \in {"_", ".", "-"})
            \/ Ch(s, n) = ":"
            \/ Ch(s, n) = " " /\ Ch(s, n + 1) # " "

\* line i is a line of an open transaction and holds an account name only
AccountOnlyPosting(lines, i) ==
    /\ OpenAt(lines, i)
    /\ ~InCommentBlock(lines, i) /\ ~isCommentBlockStart(lines[i])
    /\ AccountNameOnly(Trim(lines[i]))

\* C22: format emits a posting line that holds only an account name as the
\* configured indentation followed by its trimmed text, unchanged.
AccountOnlyPostingsKeepText ==
    op = "format" =>
        \A i \in 1..Len(text) :
            AccountOnlyPosting(text, i) =>
                OccursIn(result, <<Repeat(" ", NormalizedOptions.indentationWidth)
                                       \o Trim(text[i])>>)

\* 0-based index of the first run of two or more spaces, or tab, of s from
\* index i on; Len(s) when there is none
RECURSIVE FirstGap(_, _)
FirstGap(s, i) ==
    IF i >= Len(s) THEN Len(s)
    ELSE IF SeparatorLength(s, i) > 0 THEN i
    ELSE FirstGap(s, i + 1)

\* the text of s after its first gap
AfterGap(s) == Slice(s, FirstGap(s, 0) + SeparatorLength(s, FirstGap(s, 0)))

\* line i is a line of an open transaction with an account, a gap and a
\* text after it that parseAmount does not read
UnreadableAmountPosting(lines, i) ==
    /\ OpenAt(lines, i)
    /\ ~InCommentBlock(lines, i) /\ ~isCommentBlockStart(lines[i])
    /\ ~isCommentLine(lines[i])
    /\ FirstGap(Trim(lines[i]), 0) \in 1..(Len(Trim(lines[i])) - 1)
    /\ ~parseAmount(AfterGap(Trim(lines[i]))).ok

\* C23: format emits a posting line whose text after the gap is not a
\* parseable amount with only its indentation normalised: account, gap and
\* the remaining text are unchanged.
UnreadableAmountsKeepText ==
    op = "format" =>
        \A i \in 1..Len(text) :
            UnreadableAmountPosting(text, i) =>
                OccursIn(result, <<Repeat(" ", NormalizedOptions.indentationWidth)
                                       \o Trim(text[i])>>)

(***************************************************************************)
(* Alignment at a fixed column                                             *)
(***************************************************************************)
\* the room between the account and the amount when the first digit of the
\* amount stands at the configured column
RoomBeforeAmount(acct, amount, opts) ==
    opts.amountColumnPosition - opts.indentationWidth - Len(acct)
        - FirstDigitFrom(amount, 0)

\* the formatted posting has the first digit of its amount at the column,
\* or two spaces after the account when fewer than two would fit
PlacedAtColumn(line, acct, amount, opts) ==
    IF RoomBeforeAmount(acct, amount, opts) >= 2
    THEN AmountDigitColumn(line, amount) = opts.amountColumnPosition
    ELSE line = Repeat(" ", opts.indentationWidth) \o acct \o "  " \o amount

\* C24: after format with fixedColumn alignment, every posting with an
\* account and an amount has the first digit of its amount at column
\* amountColumnPosition when two spaces or more fit between account and
\* amount, and exactly two spaces after the account otherwise, in every
\* transaction of the document.
FixedColumnAlignsFirstDigits ==
    op = "format" /\ NormalizedOptions.amountAlignment = "fixedColumn" =>
        \A h, i \in 1..Len(result) :
            SameTransaction(result, h, i) /\ IsAmountPosting(result[i]) =>
                PlacedAtColumn(result[i], extractPostingDetail(result[i]).account.str,
                               PostingAmount(result[i]), NormalizedOptions)

\* two transactions were reformatted: in one the amount stands at the
\* column, in the other the account leaves no room for that
FixedColumnAlignsFirstDigitsWitness ==
    /\ op = "format"
    /\ NormalizedOptions.amountAlignment = "fixedColumn"
    /\ result # text
    /\ \E h, i, k, j \in 1..Len(result) :
            /\ h < k
            /\ SameTransaction(result, h, i) /\ IsAmountPosting(result[i])
            /\ SameTransaction(result, k, j) /\ IsAmountPosting(result[j])
            /\ RoomBeforeAmount(extractPostingDetail(result[i]).account.str,
                                PostingAmount(result[i]), NormalizedOptions) >= 2
            /\ RoomBeforeAmount(extractPostingDetail(result[j]).account.str,
                                PostingAmount(result[j]), NormalizedOptions) < 2

(***************************************************************************)
(* Lines of a transaction that are no postings                             *)
(***************************************************************************)
\* a blank line, a comment line or a metadata line
IsNoteLine(line) ==
    Trim(line) = "" \/ isCommentLine(line) \/ isMetadataPostingLine(Trim(line))

RECURSIVE WithoutNotes(_)
WithoutNotes(lines) ==
    IF lines = <<>> THEN <<>>
    ELSE (IF IsNoteLine(Head(lines)) THEN <<>> ELSE <<Head(lines)>>)
            \o WithoutNotes(Tail(lines))

\* C25: comment lines, blank lines and metadata lines are not postings for
\* calculateBalancingAmount: the result is the result for the transaction
\* with these lines removed.
NotesDoNotChangeBalance ==
    op = "balance" =>
        suggestion = calculateBalancingAmount(<<Head(text)>> \o WithoutNotes(Tail(text)),
                                              NormalizedOptions, account, context)

\* an amount was suggested for a transaction that has a metadata line
NotesDoNotChangeBalanceWitness ==
    /\ op = "balance"
    /\ ~suggestion.isNull
    /\ \E i \in 2..Len(text) : isMetadataPostingLine(Trim(text[i]))

(***************************************************************************)
(* The suggestion at the cursor                                            *)
(***************************************************************************)
\* the account stands after the indentation of the line and only spaces
\* stand between its end and the cursor
CursorAfterAccount(line, acct, cursorColumn) ==
    /\ SubSeq(line, LeadingSpaces(line, 0) + 1, LeadingSpaces(line, 0) + Len(acct)) = acct
    /\ cursorColumn \in (LeadingSpaces(line, 0) + Len(acct))..Len(line)
    /\ \A n \in (LeadingSpaces(line, 0) + Len(acct) + 1)..cursorColumn : Ch(line, n) = " "

\* the spaces between the end of the account and the cursor
SpacesBeforeCursor(line, acct, cursorColumn) ==
    cursorColumn - (LeadingSpaces(line, 0) + Len(acct))

\* C26: the spaces already present between the account and the cursor plus
\* the leading spaces of the text that calculateBalancingAmount returns are
\* at least two; without a context the returned text starts with at least
\* two spaces.
SuggestionKeepsTwoSpaces ==
    op = "balance" /\ ~suggestion.isNull =>
        IF context.given
        THEN CursorAfterAccount(context.currentLineText, account, context.cursorColumn) =>
                SpacesBeforeCursor(context.currentLineText, account, context.cursorColumn)
                    + LeadingSpaces(suggestion.str, 0) >= 2
        ELSE LeadingSpaces(suggestion.str, 0) >= 2

\* an amount was suggested at a cursor that stands one space after the
\* account, and the text returned starts with fewer than two spaces
SuggestionKeepsTwoSpacesWitness ==
    /\ op = "balance"
    /\ ~suggestion.isNull
    /\ context.given
    /\ CursorAfterAccount(context.currentLineText, account, context.cursorColumn)
    /\ SpacesBeforeCursor(context.currentLineText, account, context.cursorColumn) = 1
    /\ LeadingSpaces(suggestion.str, 0) < 2

\* the first digits of the amounts of the existing postings stand in column d
ExistingDigitsColumn(lines, d) ==
    /\ Len(lines) > 2
    /\ \A n \in 2..(Len(lines) - 1) :
            IsAmountPosting(lines[n]) /\ FirstDigitFrom(lines[n], 0) = d

\* the amount of the suggestion, without the spaces before it
SuggestedAmount(str) == Slice(str, LeadingSpaces(str, 0))

\* the current line is indentation and account with the cursor at its end,
\* and the column d leaves two spaces or more before the suggested amount
RoomAtColumn(line, acct, cursorColumn, str, d) ==
    /\ line = Repeat(" ", LeadingSpaces(line, 0)) \o acct
    /\ cursorColumn = Len(line)
    /\ d - Len(line) - FirstDigitFrom(SuggestedAmount(str), 0) >= 2

\* the transaction with the suggestion appended to its last line
Completed(lines, str) ==
    SubSeq(lines, 1, Len(lines) - 1) \o <<lines[Len(lines)] \o str>>

\* C27: in widest mode, with the cursor at the end of a line of indentation
\* and account, and the existing amounts' first digits in a column that
\* leaves two spaces or more for the suggestion, the appended suggestion has
\* its first digit in that column, as format places it in the completed
\* transaction.
SuggestionAlignsWithExisting ==
    op = "balance" /\ ~suggestion.isNull /\ context.given
        /\ NormalizedOptions.amountAlignment = "widest" =>
            \A d \in 0..Len(text[2]) :
                /\ ExistingDigitsColumn(text, d)
                /\ RoomAtColumn(context.currentLineText, account, context.cursorColumn,
                                suggestion.str, d)
                => /\ FirstDigitFrom(context.currentLineText \o suggestion.str, 0) = d
                   /\ formatTransaction(Completed(text, suggestion.str), NormalizedOptions)
                        [Len(text)] = context.currentLineText \o suggestion.str

(***************************************************************************)
(* The content lines of the formatted text                                 *)
(***************************************************************************)
\* the number of lines that are not blank
RECURSIVE ContentLines(_)
ContentLines(lines) ==
    IF lines = <<>> THEN 0
    ELSE (IF Trim(Head(lines)) = "" THEN 0 ELSE 1) + ContentLines(Tail(lines))

\* the headers of the transactions of the input from line i on, each as
\* format emits it, in the input's order
RECURSIVE EmittedHeaders(_, _, _)
EmittedHeaders(lines, i, opts) ==
    IF i > Len(lines) THEN <<>>
    ELSE (IF isTransactionHeaderLine(lines[i]) /\ ~InCommentBlock(lines, i)
          THEN <<Head(formatTransaction(TransactionLines(lines, i), opts))>>
          ELSE <<>>)
            \o EmittedHeaders(lines, i + 1, opts)

\* the lines of part occur in the lines from line i on, in the order of part
RECURSIVE InOrderFrom(_, _, _)
InOrderFrom(lines, i, part) ==
    IF part = <<>> THEN TRUE
    ELSE IF i > Len(lines) THEN FALSE
    ELSE IF lines[i] = Head(part) THEN InOrderFrom(lines, i + 1, Tail(part))
    ELSE InOrderFrom(lines, i + 1, part)

\* two transactions, the second still open when the input ends
EndsInsideSecondTransaction(lines) ==
    /\ Len(EmittedHeaders(lines, 1, NormalizedOptions)) >= 2
    /\ Trim(lines[Len(lines)]) # ""
    /\ ~isTransactionHeaderLine(lines[Len(lines)])

\* C28: format never drops, duplicates or merges content lines: the output
\* has as many non-blank lines as the input, and the transaction headers
\* appear in the order of the input.
FormatKeepsContentLines ==
    op = "format" =>
        /\ ContentLines(result) = ContentLines(text)
        /\ InOrderFrom(result, 1, EmittedHeaders(text, 1, NormalizedOptions))

FormatKeepsContentLinesWitness ==
    /\ op = "format"
    /\ EndsInsideSecondTransaction(text)
    /\ result # text

(***************************************************************************)
(* Properties of the account cache                                         *)
(***************************************************************************)
\* the paths a scan of the workspace visits: those in paths and all that
\* the files at them include, directly or through other files
RECURSIVE IncludedFrom(_, _)
IncludedFrom(paths, workspace) ==
    IF \A p \in paths \cap DOMAIN workspace :
            \A k \in 1..Len(extractIncludedFiles(workspace[p])) :
                extractIncludedFiles(workspace[p])[k] \in paths
    THEN paths
    ELSE IncludedFrom(
            paths \cup UNION {{extractIncludedFiles(workspace[p])[k] :
                                  k \in 1..Len(extractIncludedFiles(workspace[p]))} :
                              p \in paths \cap DOMAIN workspace},
            workspace)

\* the accounts of a finished scan of the workspace
ScannedAccounts(workspace) ==
    UNION {extractAccountsFromDocument(workspace[p]) :
              p \in IncludedFrom(UNION {{order[k] : k \in DOMAIN order} :
                                           order \in JournalFilesOf(workspace)},
                                  workspace)
                        \cap DOMAIN workspace}

\* request r refreshes the cache
Refreshing(r) == requests[r].pc \in {"find", "open"}

\* request r, for a posting line, builds its items in this step
BuildsItems(r) ==
    /\ requests[r].pc # "done"
    /\ requests'[r].pc = "done"
    /\ IsSpace(Ch(requests'[r].linePrefix, 1))

\* C29: a completion request never reads the account cache while a refresh
\* of it is in progress: when a request builds its items no other request
\* is refreshing the cache, and the items are those of the complete result
\* of a scan of the workspace.
CompletionReadsFinishedScan ==
    [][\A r \in DOMAIN requests :
            BuildsItems(r) =>
                /\ \A q \in DOMAIN requests \ {r} : ~Refreshing(q)
                /\ requests'[r].items =
                        CompletionItems(ScannedAccounts(files), requests'[r].config)]_vars


\* the file at path p holds an include directive for path q
Includes(p, q) ==
    \E k \in 1..Len(extractIncludedFiles(files[p])) : extractIncludedFiles(files[p])[k] = q

\* no path was passed to openTextDocument twice by request r
OpenedOnce(r) ==
    \A i, j \in 1..Len(requests[r].opened) :
        requests[r].opened[i] = requests[r].opened[j] => i = j

\* C30: a refresh of the account cache terminates for every finite set of
\* journal files, also when include directives form a cycle or a file
\* includes itself, and reads each file path at most once per refresh.
RefreshTerminatesReadingOnce ==
    /\ [](\A r \in 1..MaxRefreshes : OpenedOnce(r))
    /\ \A r \in 1..MaxRefreshes : Refreshing(r) ~> (requests[r].pc = "done")

\* a refresh has finished in a workspace where a file includes itself and
\* two files include each other
RefreshTerminatesReadingOnceWitness ==
    \E r \in DOMAIN requests :
        /\ requests[r].pc = "done"
        /\ \E p, q \in requests[r].visitedFiles \cap DOMAIN files :
            p # q /\ Includes(p, p) /\ Includes(p, q) /\ Includes(q, p)

(***************************************************************************)
(* The whole engine                                                        *)
(***************************************************************************)
Init ==
    InitFormat \/ InitSort \/ InitToggle \/ InitBalance \/ InitAmount \/ InitOptions
        \/ InitCli \/ InitBlocks \/ InitDates \/ InitDetails \/ InitNotes \/ InitCursor
        \/ InitCache \/ InitRefresh

Next ==
    NextFormat \/ NextSort \/ NextToggle \/ NextBalance \/ NextAmount \/ NextOptions
        \/ NextCli \/ NextColumn \/ NextDates \/ NextDetails \/ NextNotes \/ NextCursor
        \/ NextCache

Spec == Init /\ [][Next]_vars


====
